---- MODULE Spec2Model ----
(***************************************************************************)
(* The decoration pipeline of the frontend: DecorateContext                *)
(* (core/frontend/src/ViewContext.ts) adding decorations to the frame's    *)
(* Decorations bundle and recording them in the viewport's per-decorator   *)
(* decoration cache.                                                       *)
(*                                                                         *)
(* addFromDecorator calls back into the decorator (decorate), which in     *)
(* turn calls the add-methods of the context; the model follows that       *)
(* control flow: AddFromDecorator runs the handler up to the callback,     *)
(* the add-actions are the calls decorate makes, and DecorateReturn /      *)
(* DecorateThrow run the finally block and leave the handler.              *)
(*                                                                         *)
(* Viewport.ts and ViewManager.ts (the cache map, the registered           *)
(* decorators, the frame loop) are not part of the excerpt; the            *)
(* definitions that stand for them follow spec.md and are listed as such   *)
(* in MODEL_MAP.json.                                                      *)
(***************************************************************************)
EXTENDS Integers, Sequences, FiniteSets, TLC

\* ---------------------------------------------------------------- bounds
\* decorations (graphics, canvas decorations, html elements) created in a run
MaxId == 2
\* calls a decorator makes on the context in one decorate invocation
MaxCalls == 2
\* addCanvasDecoration calls followed in one decorate invocation
MaxCanvas == 6
\* graphics output to one SceneContext
MaxGraphics == 3
\* addPlanarClassifier / addBackgroundDrapedModel calls on one SceneContext
MaxClassCalls == 3
\* graphics added to one DynamicsContext
MaxDynGraphics == 4
\* changeDynamics calls on one DynamicsContext
MaxChanges == 3

\* the largest scrollTop of an element
MaxScroll == 2

\* requests made on one RpcRequestsHandler
MaxRequests == 2
\* depth of nested withGraphicType calls
MaxDepth == 2
\* decorate invocations in progress at a time (addFromDecorator called from decorate)
MaxNesting == 2

\* ------------------------------------------------------------ decorators
Decorators == {"A", "B", "N"}

\* TestDecorator.useCachedDecorations: true for the cachable decorators,
\* undefined (not true) for the other one
useCachedDecorations == [d \in Decorators |-> d \in {"A", "B"}]

\* the order in which the registered decorators are kept and visited
DecoratorOrder == <<"A", "N", "B">>

Undefined == "undefined"

GraphicTypes == {"Scene", "WorldDecoration", "WorldOverlay", "ViewOverlay", "ViewBackground"}

\* ------------------------------------------------------- render graphics
\* Objects are told apart by kind and id. A decoration the decorator creates
\* takes the next id; the graphic owner and the CachedDecoration the context
\* creates in one call take the context's next object number.
NoGraphic == [kind |-> "none", id |-> 0, graphic |-> 0]

\* a graphic as produced by GraphicBuilder.finish()
RawGraphic(id) == [kind |-> "graphic", id |-> id, graphic |-> 0]

\* RenderSystem.createGraphicOwner: a new graphic wrapping g
createGraphicOwner(g, id) == [kind |-> "owner", id |-> id, graphic |-> g.id]

\* ----------------------------------------------------- the Decorations bundle
\* an undefined list is written <<>>: the code never holds a defined empty list.
\* html is the child list of screenViewport.decorationDiv.
EmptyDecorations ==
  [normal |-> <<>>, world |-> <<>>, worldOverlay |-> <<>>, viewOverlay |-> <<>>,
   canvasDecorations |-> <<>>, html |-> <<>>,
   skyBox |-> NoGraphic, viewBackground |-> NoGraphic]

\* the three variants of CachedDecoration, each a new object (id)
CachedGraphic(id, owner, type) ==
  [id |-> id, type |-> "graphic", graphicOwner |-> owner, graphicType |-> type,
   canvasDecoration |-> 0, atFront |-> FALSE, htmlElement |-> 0]
CachedCanvas(id, c, atFront) ==
  [id |-> id, type |-> "canvas", graphicOwner |-> NoGraphic, graphicType |-> "",
   canvasDecoration |-> c, atFront |-> atFront, htmlElement |-> 0]
CachedHtml(id, e) ==
  [id |-> id, type |-> "html", graphicOwner |-> NoGraphic, graphicType |-> "",
   canvasDecoration |-> 0, atFront |-> FALSE, htmlElement |-> e]

VARIABLES
  decorators,             \* ViewManager.decorators: the registered decorators
  decorationsValid,       \* the viewport's frame decorations are up to date
  pending,                \* decorators the frame loop has still to pass to addFromDecorator
  stack,                  \* the decorator whose decorate is running (<<>>: none)
  curCacheableDecorator,  \* DecorateContext._curCacheableDecorator
  decorations,            \* DecorateContext._decorations (+ the decoration div)
  cache,                  \* Viewport._decorationCache: decorator -> CachedDecoration[]
  nextId,                 \* identity of the next decoration a decorator creates
  nextObj,                \* identity of the next object the context creates
  disposeCount,           \* per graphic and per graphic owner: times its resource was released (capped at 2)
  nCalls,                 \* add-calls made on the context since the last addFromDecorator / frame start
  pre,                    \* the bundle as it was when the running decorate was entered
  produced,               \* per decorator: made an add-call in decorate since its last invalidation / removal
  partial,                \* decorators whose decorate threw while recording, since their last invalidation / removal
  everCached,             \* identities of all CachedDecoration objects ever put in the cache
  last,                   \* the latest step of addFromDecorator, until the viewport is used otherwise
  canvasLog,              \* the addCanvasDecoration calls of the running decorate: <<decoration, atFront>>
  sceneContext,           \* the frame's SceneContext: its fields and the lists of its Scene
  scopes,                 \* the withGraphicType calls in progress, innermost first
  requested,              \* what TileAdmin.requestTiles was last given (<<>>: nothing yet)
  markCalled,             \* markChildrenLoading has been called on the SceneContext
  target,                 \* RenderTarget: the model ids it holds a planar classifier / a texture drape for
  targetLog,              \* the calls addPlanarClassifier / addBackgroundDrapedModel made and what the latest returned
  dynamics,               \* DynamicsContext._dynamics
  passed,                 \* the arguments of the calls of viewport.changeDynamics, in order
  grid,                   \* the drawStandardGrid call made by the running decorate: <<[in, out]>>
  scrollTop,              \* Element.scrollTop of the elements of the document
  storage,                \* ScrollPositionMaintainer._storage (not defined: no maintainer constructed)
  atConstruction,         \* the scrollTop values when the maintainer was constructed
  rpc                     \* RpcRequestsHandler: the request in progress and the requests made

decoVars == <<decorators, decorationsValid, pending, stack, curCacheableDecorator, decorations,
              cache, nextId, nextObj, disposeCount, nCalls, pre, produced, partial,
              everCached, last>>

sceneVars == <<sceneContext, scopes, requested, markCalled>>

classVars == <<target, targetLog>>

dynVars == <<dynamics, passed>>

scrollVars == <<scrollTop, storage, atConstruction>>

auxVars == <<classVars, dynVars, grid, scrollVars, rpc>>

vars == <<decoVars, canvasLog, sceneVars, auxVars>>

Ids == 1..MaxId

\* ------------------------------------------------------------ sequences
RECURSIVE SeqRemove(_, _)
SeqRemove(s, x) ==
  IF s = <<>> THEN <<>>
  ELSE IF Head(s) = x THEN SeqRemove(Tail(s), x)
  ELSE <<Head(s)>> \o SeqRemove(Tail(s), x)

Range(s) == {s[i] : i \in 1..Len(s)}

\* ------------------------------------------------------ Viewport (cache)
\* Viewport.getCachedDecorations
HasCachedDecorations(c, d) == d \in DOMAIN c
getCachedDecorations(c, d) == IF d \in DOMAIN c THEN c[d] ELSE <<>>

\* Viewport.addCachedDecoration: the entry is created by the first decoration
addCachedDecoration(c, d, dec) ==
  IF d \in DOMAIN c THEN [c EXCEPT ![d] = Append(@, dec)]
  ELSE c @@ (d :> <<dec>>)

\* ------------------------------------------------------ DecorateContext
\* The methods below work on st = [decorations, cache, nextObj] and are given
\* the value of _curCacheableDecorator.

\* mutant of _appendToCache: the decoration is pushed on every entry
appendToCacheAll(st, cur, dec) ==
  [st EXCEPT !.cache =
     LET c1 == addCachedDecoration(st.cache, cur, dec)
     IN [d \in DOMAIN c1 |-> IF d = cur THEN c1[d] ELSE Append(c1[d], dec)]]

\* DecorateContext._appendToCache
appendToCache(st, cur, dec) ==
  [st EXCEPT !.cache = addCachedDecoration(st.cache, cur, dec)]

\* DecorateContext.setSkyBox
setSkyBox(st, graphic) == [st EXCEPT !.decorations.skyBox = graphic]

\* DecorateContext.setViewBackground
setViewBackground(st, graphic) == [st EXCEPT !.decorations.viewBackground = graphic]

\* mutant of putDecoration: the ViewOverlay case falls through to ViewBackground
putDecorationFallThrough(st, type, decoration) ==
  CASE type = "Scene" -> [st EXCEPT !.decorations.normal = Append(@, decoration)]
    [] type = "WorldDecoration" -> [st EXCEPT !.decorations.world = Append(@, decoration)]
    [] type = "WorldOverlay" -> [st EXCEPT !.decorations.worldOverlay = Append(@, decoration)]
    [] type = "ViewOverlay" ->
         setViewBackground([st EXCEPT !.decorations.viewOverlay = Append(@, decoration)],
                           decoration)
    [] type = "ViewBackground" -> setViewBackground(st, decoration)
    [] OTHER -> st

\* the switch of addDecoration: the list (or slot) selected by the type
putDecoration(st, type, decoration) ==
  CASE type = "Scene" -> [st EXCEPT !.decorations.normal = Append(@, decoration)]
    [] type = "WorldDecoration" -> [st EXCEPT !.decorations.world = Append(@, decoration)]
    [] type = "WorldOverlay" -> [st EXCEPT !.decorations.worldOverlay = Append(@, decoration)]
    [] type = "ViewOverlay" -> [st EXCEPT !.decorations.viewOverlay = Append(@, decoration)]
    [] type = "ViewBackground" -> setViewBackground(st, decoration)
    [] OTHER -> st

\* mutant of addDecoration: the graphic, not its owner, goes to the bundle
addDecorationRaw(st, cur, type, decoration) ==
  IF cur # Undefined
  THEN LET graphicOwner == createGraphicOwner(decoration, st.nextObj)
           s1 == appendToCache([st EXCEPT !.nextObj = @ + 1], cur,
                               CachedGraphic(st.nextObj, graphicOwner, type))
       IN putDecoration(s1, type, decoration)
  ELSE putDecoration(st, type, decoration)

\* mutant of addDecoration: nothing is recorded
addDecorationNoRecord(st, cur, type, decoration) == putDecoration(st, type, decoration)

\* DecorateContext.addDecoration
addDecoration(st, cur, type, decoration) ==
  IF cur # Undefined
  THEN LET graphicOwner == createGraphicOwner(decoration, st.nextObj)
           s1 == appendToCache([st EXCEPT !.nextObj = @ + 1], cur,
                               CachedGraphic(st.nextObj, graphicOwner, type))
       IN putDecoration(s1, type, graphicOwner)
  ELSE putDecoration(st, type, decoration)

\* DecorateContext.addDecorationFromBuilder: builder.type and builder.finish()
addDecorationFromBuilder(st, cur, builder) ==
  addDecoration(st, cur, builder.type, builder.graphic)

\* mutant of addCanvasDecoration: nothing is recorded
addCanvasDecorationNoRecord(st, cur, decoration, atFront) ==
  LET list == st.decorations.canvasDecorations
  IN IF Len(list) = 0 \/ atFront = TRUE
     THEN [st EXCEPT !.decorations.canvasDecorations = Append(list, decoration)]
     ELSE [st EXCEPT !.decorations.canvasDecorations = <<decoration>> \o list]

\* DecorateContext.addCanvasDecoration: push (at the end) when the list is
\* empty or atFront, unshift (at the start) otherwise
addCanvasDecoration(st, cur, decoration, atFront) ==
  LET s1 == IF cur # Undefined
            THEN appendToCache([st EXCEPT !.nextObj = @ + 1], cur,
                               CachedCanvas(st.nextObj, decoration, atFront))
            ELSE st
      list == s1.decorations.canvasDecorations
  IN IF Len(list) = 0 \/ atFront = TRUE
     THEN [s1 EXCEPT !.decorations.canvasDecorations = Append(list, decoration)]
     ELSE [s1 EXCEPT !.decorations.canvasDecorations = <<decoration>> \o list]

\* Node.appendChild: a node that is already a child is moved to the end
appendChild(children, node) == Append(SeqRemove(children, node), node)

\* mutant of addHtmlDecoration: nothing is recorded
addHtmlDecorationNoRecord(st, cur, decoration) ==
  [st EXCEPT !.decorations.html = appendChild(@, decoration)]

\* DecorateContext.addHtmlDecoration
addHtmlDecoration(st, cur, decoration) ==
  LET s1 == IF cur # Undefined
            THEN appendToCache([st EXCEPT !.nextObj = @ + 1], cur,
                               CachedHtml(st.nextObj, decoration))
            ELSE st
  IN [s1 EXCEPT !.decorations.html = appendChild(@, decoration)]

\* mutant of restoreCache: canvas decorations are added with the default atFront
RECURSIVE restoreCacheDefaultFront(_, _, _)
restoreCacheDefaultFront(st, cur, cachedDecorations) ==
  IF cachedDecorations = <<>> THEN st
  ELSE LET cd == Head(cachedDecorations)
           s1 == CASE cd.type = "graphic" -> addDecoration(st, cur, cd.graphicType, cd.graphicOwner)
                   [] cd.type = "canvas" -> addCanvasDecoration(st, cur, cd.canvasDecoration, FALSE)
                   [] cd.type = "html" -> addHtmlDecoration(st, cur, cd.htmlElement)
                   [] OTHER -> st
       IN restoreCacheDefaultFront(s1, cur, Tail(cachedDecorations))

\* mutant of restoreCache: a cached graphic is wrapped in a new graphic owner
RECURSIVE restoreCacheRewrap(_, _, _)
restoreCacheRewrap(st, cur, cachedDecorations) ==
  IF cachedDecorations = <<>> THEN st
  ELSE LET cd == Head(cachedDecorations)
           s1 == CASE cd.type = "graphic" ->
                        putDecoration([st EXCEPT !.nextObj = @ + 1], cd.graphicType,
                                      createGraphicOwner(cd.graphicOwner, st.nextObj))
                   [] cd.type = "canvas" -> addCanvasDecoration(st, cur, cd.canvasDecoration, cd.atFront)
                   [] cd.type = "html" -> addHtmlDecoration(st, cur, cd.htmlElement)
                   [] OTHER -> st
       IN restoreCacheRewrap(s1, cur, Tail(cachedDecorations))

\* DecorateContext.restoreCache: the cached decorations, in order, through
\* the same add-methods
RECURSIVE restoreCache(_, _, _)
restoreCache(st, cur, cachedDecorations) ==
  IF cachedDecorations = <<>> THEN st
  ELSE LET cd == Head(cachedDecorations)
           s1 == CASE cd.type = "graphic" -> addDecoration(st, cur, cd.graphicType, cd.graphicOwner)
                   [] cd.type = "canvas" -> addCanvasDecoration(st, cur, cd.canvasDecoration, cd.atFront)
                   [] cd.type = "html" -> addHtmlDecoration(st, cur, cd.htmlElement)
                   [] OTHER -> st
       IN restoreCache(s1, cur, Tail(cachedDecorations))

\* ------------------------------------------- Viewport (release of graphics)
Bump(f, ids) == [i \in DOMAIN f |-> IF i \in ids /\ f[i] < 2 THEN f[i] + 1 ELSE f[i]]

\* dropping a cache entry: each graphic owner releases itself and the graphic it holds
OwnersOf(cds) == {cds[i].graphicOwner : i \in {j \in 1..Len(cds) : cds[j].type = "graphic"}}
disposeCachedDecorations(dc, cds) ==
  [owner |-> Bump(dc.owner, {o.id : o \in OwnersOf(cds)}),
   graphic |-> Bump(dc.graphic, {o.graphic : o \in OwnersOf(cds)})]

\* replacing the frame's Decorations: its graphics are disposed; disposing a
\* graphic owner does not release the graphic it holds
BundleGraphics(decs) ==
  Range(decs.normal) \cup Range(decs.world) \cup Range(decs.worldOverlay)
    \cup Range(decs.viewOverlay) \cup {decs.skyBox, decs.viewBackground}
disposeDecorations(dc, decs) ==
  [dc EXCEPT !.graphic = Bump(@, {g.id : g \in {x \in BundleGraphics(decs) : x.kind = "graphic"}})]

\* Viewport.invalidateCachedDecorations on a cache c
dropCachedDecorations(c, d) == [x \in (DOMAIN c) \ {d} |-> c[x]]

\* --------------------------------------------------------- SceneContext
TileGraphicTypes == {"BackgroundMap", "Scene", "Overlay"}

TileLoadStatuses == {"NotLoaded", "Queued", "Loading", "Ready", "NotFound", "Abandoned"}

Tiles == {"t1", "t2"}

\* a SceneContext as constructed: the fields of the class and the graphic
\* lists of its Scene
NewSceneContext ==
  [missingChildTiles |-> FALSE, missingTiles |-> {}, graphicType |-> "Scene",
   foreground |-> <<>>, background |-> <<>>, overlay |-> <<>>,
   planarClassifiers |-> <<>>, textureDrapes |-> <<>>]

\* mutant of markChildrenLoading: the flag is not raised
markChildrenLoadingNot(sc) == sc

\* SceneContext.markChildrenLoading
markChildrenLoading(sc) == [sc EXCEPT !.missingChildTiles = TRUE]

\* SceneContext.hasMissingTiles
hasMissingTiles(sc) == sc.missingChildTiles \/ Cardinality(sc.missingTiles) > 0

\* mutant of outputGraphic: the graphic type is not looked at
outputGraphicForeground(sc, graphic) == [sc EXCEPT !.foreground = Append(@, graphic)]

\* SceneContext.outputGraphic
outputGraphic(sc, graphic) ==
  CASE sc.graphicType = "BackgroundMap" -> [sc EXCEPT !.background = Append(@, graphic)]
    [] sc.graphicType = "Overlay" -> [sc EXCEPT !.overlay = Append(@, graphic)]
    [] OTHER -> [sc EXCEPT !.foreground = Append(@, graphic)]

\* mutant of insertMissingTile: the load status is not looked at
insertMissingTileAlways(sc, tile, loadStatus) == [sc EXCEPT !.missingTiles = @ \cup {tile}]

\* SceneContext.insertMissingTile, loadStatus being tile.loadStatus
insertMissingTile(sc, tile, loadStatus) ==
  IF loadStatus \in {"NotLoaded", "Queued", "Loading"}
  THEN [sc EXCEPT !.missingTiles = @ \cup {tile}]
  ELSE sc

\* TileAdmin.requestTiles: the viewport's request is replaced by the given set
requestTiles(vp, tiles) == <<[viewport |-> vp, tiles |-> tiles]>>

\* mutant of requestMissingTiles: the set is emptied once handed over
requestMissingTilesClearing(ss) ==
  [ctx |-> [ss.ctx EXCEPT !.missingTiles = {}, !.missingChildTiles = FALSE],
   requested |-> requestTiles("viewport", ss.ctx.missingTiles)]

\* SceneContext.requestMissingTiles on ss = [ctx, requested]
requestMissingTiles(ss) ==
  [ctx |-> ss.ctx, requested |-> requestTiles("viewport", ss.ctx.missingTiles)]

\* SceneContext.withGraphicType up to the call of func: the statements before it
withGraphicTypeEnter(sc, type) == [sc EXCEPT !.graphicType = type]

\* SceneContext.withGraphicType after func has returned
withGraphicTypeLeave(sc, prevType) == [sc EXCEPT !.graphicType = prevType]

\* ------------------------------------------- planar classifiers, texture drapes
\* model ids of classifier models and of draped tile trees
ModelIds == {"m1", "m2"}

\* a classifier or drape: the one the target holds for a model id, or the
\* n-th one created for it; NoObject stands for undefined
NoObject == [model |-> "", from |-> "none", n |-> 0]
TargetObject(id) == [model |-> id, from |-> "target", n |-> 0]
CreatedObject(id, n) == [model |-> id, from |-> "created", n |-> n]

\* the calls made so far: how often the target was asked for the object of a
\* model id, asked to create one, and how often graphics were collected
NoTargetCalls ==
  [calls |-> 0,
   get |-> [m \in ModelIds |-> 0], create |-> [m \in ModelIds |-> 0],
   collect |-> [m \in ModelIds |-> 0],
   getDrape |-> [m \in ModelIds |-> 0], createDrape |-> [m \in ModelIds |-> 0],
   ret |-> NoObject]

\* RenderTarget.getPlanarClassifier / getTextureDrape: what the target holds
\* for the model id from an earlier frame, if anything
getFromTarget(held, id) == IF id \in held THEN TargetObject(id) ELSE NoObject

\* RenderTarget.createPlanarClassifier / RenderSystem.createBackgroundMapDrape:
\* the n-th object created for the model id, or undefined
createOnTarget(id, n, canCreate) == IF canCreate THEN CreatedObject(id, n) ELSE NoObject

\* mutant of addPlanarClassifier: the scene's map is not consulted first
addPlanarClassifierNoMemo(cs, tg, id, canCreate) ==
  LET held == getFromTarget(tg.classifiers, id)
      l1 == [cs.log EXCEPT !.calls = @ + 1, !.get[id] = @ + 1]
      l2 == IF held = NoObject THEN [l1 EXCEPT !.create[id] = @ + 1] ELSE l1
      classifier == IF held = NoObject
                    THEN createOnTarget(id, l2.create[id], canCreate) ELSE held
  IN IF classifier # NoObject
     THEN [ctx |-> [cs.ctx EXCEPT !.planarClassifiers =
                      [m \in DOMAIN @ \cup {id} |-> IF m = id THEN classifier ELSE @[m]]],
           log |-> [l2 EXCEPT !.collect[id] = @ + 1, !.ret = classifier]]
     ELSE [ctx |-> cs.ctx, log |-> [l2 EXCEPT !.ret = classifier]]

\* mutant of addPlanarClassifier: what the target returned is recorded as it is
addPlanarClassifierRecordAll(cs, tg, id, canCreate) ==
  IF id \in DOMAIN cs.ctx.planarClassifiers
  THEN [ctx |-> cs.ctx,
        log |-> [cs.log EXCEPT !.calls = @ + 1, !.ret = cs.ctx.planarClassifiers[id]]]
  ELSE LET held == getFromTarget(tg.classifiers, id)
           l1 == [cs.log EXCEPT !.calls = @ + 1, !.get[id] = @ + 1]
           l2 == IF held = NoObject THEN [l1 EXCEPT !.create[id] = @ + 1] ELSE l1
           classifier == IF held = NoObject
                         THEN createOnTarget(id, l2.create[id], canCreate) ELSE held
       IN [ctx |-> [cs.ctx EXCEPT !.planarClassifiers = @ @@ (id :> classifier)],
           log |-> [l2 EXCEPT !.collect[id] = @ + 1, !.ret = classifier]]

\* SceneContext.addPlanarClassifier on cs = [ctx, log], tg being the render
\* target and id props.modelId; log.ret is the value returned
addPlanarClassifier(cs, tg, id, canCreate) ==
  IF id \in DOMAIN cs.ctx.planarClassifiers
  THEN [ctx |-> cs.ctx,
        log |-> [cs.log EXCEPT !.calls = @ + 1, !.ret = cs.ctx.planarClassifiers[id]]]
  ELSE LET held == getFromTarget(tg.classifiers, id)
           l1 == [cs.log EXCEPT !.calls = @ + 1, !.get[id] = @ + 1]
           l2 == IF held = NoObject THEN [l1 EXCEPT !.create[id] = @ + 1] ELSE l1
           classifier == IF held = NoObject
                         THEN createOnTarget(id, l2.create[id], canCreate) ELSE held
       IN IF classifier # NoObject
          THEN [ctx |-> [cs.ctx EXCEPT !.planarClassifiers = @ @@ (id :> classifier)],
                log |-> [l2 EXCEPT !.collect[id] = @ + 1, !.ret = classifier]]
          ELSE [ctx |-> cs.ctx, log |-> [l2 EXCEPT !.ret = classifier]]

\* SceneContext.getTextureDrapeForModel
getTextureDrapeForModel(sc, modelId) ==
  IF modelId \in DOMAIN sc.textureDrapes THEN sc.textureDrapes[modelId] ELSE NoObject

\* mutant of addBackgroundDrapedModel: the drape is returned without being recorded
addBackgroundDrapedModelNoRecord(cs, tg, drapedTree, canCreate) ==
  IF ~drapedTree.available
  THEN [ctx |-> cs.ctx, log |-> [cs.log EXCEPT !.calls = @ + 1, !.ret = NoObject]]
  ELSE LET id == drapedTree.modelId
           known == getTextureDrapeForModel(cs.ctx, id)
       IN IF known # NoObject
          THEN [ctx |-> cs.ctx, log |-> [cs.log EXCEPT !.calls = @ + 1, !.ret = known]]
          ELSE LET held == getFromTarget(tg.drapes, id)
                   l1 == [cs.log EXCEPT !.calls = @ + 1, !.getDrape[id] = @ + 1]
                   l2 == IF held = NoObject THEN [l1 EXCEPT !.createDrape[id] = @ + 1] ELSE l1
                   drape == IF held = NoObject
                            THEN createOnTarget(id, l2.createDrape[id], canCreate) ELSE held
               IN [ctx |-> cs.ctx, log |-> [l2 EXCEPT !.ret = drape]]

\* SceneContext.addBackgroundDrapedModel, drapedTree standing for
\* drapedTreeRef.treeOwner.tileTree (available or not) and its modelId
addBackgroundDrapedModel(cs, tg, drapedTree, canCreate) ==
  IF ~drapedTree.available
  THEN [ctx |-> cs.ctx, log |-> [cs.log EXCEPT !.calls = @ + 1, !.ret = NoObject]]
  ELSE LET id == drapedTree.modelId
           known == getTextureDrapeForModel(cs.ctx, id)
       IN IF known # NoObject
          THEN [ctx |-> cs.ctx, log |-> [cs.log EXCEPT !.calls = @ + 1, !.ret = known]]
          ELSE LET held == getFromTarget(tg.drapes, id)
                   l1 == [cs.log EXCEPT !.calls = @ + 1, !.getDrape[id] = @ + 1]
                   l2 == IF held = NoObject THEN [l1 EXCEPT !.createDrape[id] = @ + 1] ELSE l1
                   drape == IF held = NoObject
                            THEN createOnTarget(id, l2.createDrape[id], canCreate) ELSE held
               IN IF drape # NoObject
                  THEN [ctx |-> [cs.ctx EXCEPT !.textureDrapes = @ @@ (id :> drape)],
                        log |-> [l2 EXCEPT !.ret = drape]]
                  ELSE [ctx |-> cs.ctx, log |-> [l2 EXCEPT !.ret = drape]]

\* --------------------------------------------------------- drawStandardGrid
\* Lengths are whole numbers of a fixed unit, the pixel size (meterPerPixel) is
\* positive, and the eye dot product is given in thousandths.
gridConstants ==
  [minSeparation |-> 20, maxRefLines |-> 100, gridTransparency |-> 220,
   refTransparency |-> 150, planeTransparency |-> 225]

\* Math.abs(eyeDot) < 0.005, in thousandths
minEyeDot == 5

fadeRefSteps == 8

Abs(x) == IF x < 0 THEN -x ELSE x

\* mutant of edgeOn: the camera is not looked at
edgeOnAnyView(isCameraOn, eyeDot) == Abs(eyeDot) < minEyeDot

\* !vp.isCameraOn && Math.abs(eyeDot) < 0.005
edgeOn(isCameraOn, eyeDot) == ~isCameraOn /\ Abs(eyeDot) < minEyeDot

\* mutant of getClippedGridPlanePoints: a triangle is accepted
getClippedGridPlanePointsThree(clip) ==
  IF ~clip.geomDefined \/ clip.geomLength # 1 THEN FALSE
  ELSE IF ~clip.isLoop \/ clip.children # 1 THEN FALSE
  ELSE IF ~clip.isLineString THEN FALSE
  ELSE IF clip.finalPoints < 3 THEN FALSE
  ELSE TRUE

\* DecorateContext.getClippedGridPlanePoints: whether shape points are
\* returned, clip describing what the clip of the frustum gave
getClippedGridPlanePoints(clip) ==
  IF ~clip.geomDefined \/ clip.geomLength # 1 THEN FALSE
  ELSE IF ~clip.isLoop \/ clip.children # 1 THEN FALSE
  ELSE IF ~clip.isLineString THEN FALSE
  ELSE IF clip.finalPoints < 4 THEN FALSE
  ELSE TRUE

\* mutant of belowMinSeparation: the boundary counts as below
belowMinSeparationInclusive(length, meterPerPixel) ==
  length <= gridConstants.minSeparation * meterPerPixel

\* (length / meterPerPixel) < gridConstants.minSeparation
belowMinSeparation(length, meterPerPixel) ==
  length < gridConstants.minSeparation * meterPerPixel

\* mutant of drawRefLines: reference lines are given up only when both axes are too dense
drawRefLinesUnlessBoth(refSpacing, meterPerPixel) ==
  ~(belowMinSeparation(refSpacing.x, meterPerPixel)
      /\ belowMinSeparation(refSpacing.y, meterPerPixel))

\* drawRefLines of drawStandardGrid
drawRefLines(refSpacing, meterPerPixel) ==
  ~(belowMinSeparation(refSpacing.x, meterPerPixel)
      \/ belowMinSeparation(refSpacing.y, meterPerPixel))

\* getCurrentGridRefSeparation for the line with index i: the on-screen
\* distance to the line before it, which depends on the view alone
ThisDist(profile, i) ==
  IF profile = "closing"
  THEN (IF 26 - 3 * i > 0 THEN 26 - 3 * i ELSE 0)
  ELSE 50

\* mutant of refLoop: no fading after maxRefLines lines
RECURSIVE refLoopNoCutoff(_, _, _, _, _)
refLoopNoCutoff(st, nRefRepetitions, isCameraOn, unambiguous, profile) ==
  IF ~(st.i <= nRefRepetitions /\ st.fade < fadeRefSteps) THEN st
  ELSE LET s1 ==
             IF st.doFade THEN [st EXCEPT !.fade = @ + 1]
             ELSE IF st.i > 0 /\ nRefRepetitions > 10
             THEN LET s2 ==
                        IF unambiguous /\ isCameraOn
                        THEN LET thisDist == ThisDist(profile, st.i)
                             IN [st EXCEPT
                                   !.doFade = IF thisDist < gridConstants.minSeparation
                                              THEN (IF isCameraOn
                                                    THEN st.i > 1 /\ thisDist < st.lastDist
                                                    ELSE TRUE)
                                              ELSE @,
                                   !.lastDist = thisDist]
                        ELSE st
                  IN IF s2.doFade THEN [s2 EXCEPT !.nGrid = st.i] ELSE s2
             ELSE st
       IN refLoopNoCutoff([s1 EXCEPT !.i = @ + 1, !.lines = @ + 1],
                          nRefRepetitions, isCameraOn, unambiguous, profile)

\* one reference-line loop of drawStandardGrid from the state st = [i, doFade,
\* fade, nGrid, lastDist, lines]: i is xRef / yRef, fade xFade / yFade, nGrid
\* nGridRepetitions of the axis, lines the addLineString calls made
RECURSIVE refLoop(_, _, _, _, _)
refLoop(st, nRefRepetitions, isCameraOn, unambiguous, profile) ==
  IF ~(st.i <= nRefRepetitions /\ st.fade < fadeRefSteps) THEN st
  ELSE LET s1 ==
             IF st.doFade THEN [st EXCEPT !.fade = @ + 1]
             ELSE IF st.i > 0 /\ nRefRepetitions > 10
             THEN LET s2 ==
                        IF st.i > gridConstants.maxRefLines THEN [st EXCEPT !.doFade = TRUE]
                        ELSE IF unambiguous /\ isCameraOn
                        THEN LET thisDist == ThisDist(profile, st.i)
                             IN [st EXCEPT
                                   !.doFade = IF thisDist < gridConstants.minSeparation
                                              THEN (IF isCameraOn
                                                    THEN st.i > 1 /\ thisDist < st.lastDist
                                                    ELSE TRUE)
                                              ELSE @,
                                   !.lastDist = thisDist]
                        ELSE st
                  IN IF s2.doFade THEN [s2 EXCEPT !.nGrid = st.i] ELSE s2
             ELSE st
       IN refLoop([s1 EXCEPT !.i = @ + 1, !.lines = @ + 1],
                  nRefRepetitions, isCameraOn, unambiguous, profile)

\* the start of a reference-line loop
RefLoopStart(nRefRepetitions, lastDist) ==
  [i |-> 0, doFade |-> FALSE, fade |-> 0, nGrid |-> nRefRepetitions, lastDist |-> lastDist,
   lines |-> 0]

\* mutant of gridLoop: the interval after the last reference line is filled too
gridLoopInclusive(nGridRepetitions, gridsPerRef) ==
  IF nGridRepetitions > 1 THEN (nGridRepetitions + 1) * (gridsPerRef - 1) ELSE 0

\* the lines of one direction of the sub-grid: gridsPerRef - 1 between each
\* two of the first nGridRepetitions reference lines
gridLoop(nGridRepetitions, gridsPerRef) ==
  IF nGridRepetitions > 1 THEN nGridRepetitions * (gridsPerRef - 1) ELSE 0

\* a transparency given to ColorDef.withTransparency, as the fraction num / den
Whole(t) == [num |-> t, den |-> 1]

\* mutant of fadeRefTransparency: the step is a share of fadeRefSteps
fadeRefTransparencySteep(k) ==
  [num |-> gridConstants.refTransparency * fadeRefSteps
             + (255 - gridConstants.refTransparency) * k,
   den |-> fadeRefSteps]

\* gridConstants.refTransparency + (fadeRefTransparencyStep * ++xFade), with
\* fadeRefTransparencyStep = (255 - gridConstants.refTransparency) / (fadeRefSteps + 2)
fadeRefTransparency(k) ==
  [num |-> gridConstants.refTransparency * (fadeRefSteps + 2)
             + (255 - gridConstants.refTransparency) * k,
   den |-> fadeRefSteps + 2]

\* gridConstants.gridTransparency + (fadeGridTransparencyStep * yGrid), with
\* fadeGridTransparencyStep = (255 - gridConstants.gridTransparency) / (gridsPerRef + 2)
fadeGridTransparency(gridsPerRef, k) ==
  [num |-> gridConstants.gridTransparency * (gridsPerRef + 2)
             + (255 - gridConstants.gridTransparency) * k,
   den |-> gridsPerRef + 2]

\* the transparencies of the reference lines of the two loops
refTransparencies(drawRefX, xFade, drawRefY, yFade) ==
  {Whole(gridConstants.refTransparency)}
    \cup (IF drawRefX THEN {fadeRefTransparency(k) : k \in 1..xFade} ELSE {})
    \cup (IF drawRefY THEN {fadeRefTransparency(k) : k \in 1..yFade} ELSE {})

\* the transparencies of one direction of the sub-grid: the last interval
\* fades when the axis was thinned
gridTransparencies(nGridRepetitions, nRefRepetitions, gridsPerRef) ==
  IF nGridRepetitions > 1
  THEN {Whole(gridConstants.gridTransparency)}
         \cup (IF nGridRepetitions < nRefRepetitions
               THEN {fadeGridTransparency(gridsPerRef, k) : k \in 1..(gridsPerRef - 1)}
               ELSE {})
  ELSE {}

\* nothing drawn: drawStandardGrid returned before creating the builder.
\* doFadeX / xFade are the loop variables as the X loop left them.
NoGrid ==
  [builder |-> FALSE, drawRefLines |-> FALSE, drawRefX |-> FALSE, drawRefY |-> FALSE,
   drawGridLines |-> FALSE, refLinesX |-> 0, refLinesY |-> 0, gridLinesX |-> 0,
   gridLinesY |-> 0, nGridRepetitionsX |-> 0, nGridRepetitionsY |-> 0,
   doFadeX |-> FALSE, doFadeY |-> FALSE, xFade |-> 0, yFade |-> 0,
   planeTransparency |-> {}, refTransparency |-> {}, gridTransparency |-> {}]

\* mutant of drawRef: an unambiguous axis is drawn in every view
drawRefAnyView(nRefRepetitions, isCameraOn, unambiguous) ==
  nRefRepetitions < gridConstants.maxRefLines \/ unambiguous

\* drawRefX / drawRefY of drawStandardGrid
drawRef(nRefRepetitions, isCameraOn, unambiguous) ==
  nRefRepetitions < gridConstants.maxRefLines \/ (isCameraOn /\ unambiguous)

\* mutant of drawGridLines: the sub-grid is not tested against the minimum separation
drawGridLinesAnySpacing(drawRefX, drawRefY, g) ==
  drawRefX /\ drawRefY /\ g.gridsPerRef > 1

\* drawGridLines of drawStandardGrid
drawGridLines(drawRefX, drawRefY, g) ==
  drawRefX /\ drawRefY
    /\ (g.gridsPerRef > 1
         /\ ~(belowMinSeparation(g.spacing.x, g.meterPerPixel)
                \/ belowMinSeparation(g.spacing.y, g.meterPerPixel)))

\* DecorateContext.drawStandardGrid: what goes into the builder, for the view
\* and arguments g. g.nRef stands for nRefRepetitionsX / Y, which the code
\* computes from the range of the clipped shape.
drawStandardGrid(g) ==
  IF ~g.normOk THEN NoGrid
  ELSE IF edgeOn(g.isCameraOn, g.eyeDot) THEN NoGrid
  ELSE IF ~g.planeOk THEN NoGrid
  ELSE IF ~getClippedGridPlanePoints(g.clip) THEN NoGrid
  ELSE
    LET refScale == IF g.gridsPerRef = 0 THEN 1 ELSE g.gridsPerRef
        refSpacing == [x |-> g.spacing.x * refScale, y |-> g.spacing.y * refScale]
    IN IF ~drawRefLines(refSpacing, g.meterPerPixel)
       THEN [NoGrid EXCEPT !.builder = TRUE,
                           !.planeTransparency = {Whole(gridConstants.planeTransparency)}]
       ELSE
         LET drawRefX == drawRef(g.nRef.x, g.isCameraOn, g.unambiguous.x)
             drawRefY == drawRef(g.nRef.y, g.isCameraOn, g.unambiguous.y)
             gridLines == drawGridLines(drawRefX, drawRefY, g)
             loopX == IF drawRefX
                      THEN refLoop(RefLoopStart(g.nRef.x, 0), g.nRef.x, g.isCameraOn,
                                   g.unambiguous.x, g.profile)
                      ELSE RefLoopStart(g.nRef.x, 0)
             loopY == IF drawRefY
                      THEN refLoop(RefLoopStart(g.nRef.y, loopX.lastDist), g.nRef.y,
                                   g.isCameraOn, g.unambiguous.y, g.profile)
                      ELSE RefLoopStart(g.nRef.y, loopX.lastDist)
         IN [builder |-> TRUE, drawRefLines |-> TRUE, drawRefX |-> drawRefX,
             drawRefY |-> drawRefY, drawGridLines |-> gridLines,
             refLinesX |-> loopX.lines, refLinesY |-> loopY.lines,
             gridLinesX |-> IF gridLines THEN gridLoop(loopX.nGrid, g.gridsPerRef) ELSE 0,
             gridLinesY |-> IF gridLines THEN gridLoop(loopY.nGrid, g.gridsPerRef) ELSE 0,
             nGridRepetitionsX |-> loopX.nGrid, nGridRepetitionsY |-> loopY.nGrid,
             doFadeX |-> loopX.doFade, doFadeY |-> loopY.doFade,
             xFade |-> loopX.fade, yFade |-> loopY.fade,
             planeTransparency |-> {Whole(gridConstants.planeTransparency)},
             refTransparency |-> refTransparencies(drawRefX, loopX.fade, drawRefY, loopY.fade),
             gridTransparency |->
               IF gridLines
               THEN gridTransparencies(loopX.nGrid, g.nRef.x, g.gridsPerRef)
                      \cup gridTransparencies(loopY.nGrid, g.nRef.y, g.gridsPerRef)
               ELSE {}]

\* ---------------------------------------------------------- DynamicsContext
\* DynamicsContext._dynamics as constructed: undefined
NoDynamics == [defined |-> FALSE, list |-> <<>>]

\* DynamicsContext.addGraphic
addGraphic(dyn, graphic) == [defined |-> TRUE, list |-> Append(dyn.list, graphic)]

\* Viewport.changeDynamics: the viewport takes the list (or undefined) it is given
viewportChangeDynamics(given, dyn) == Append(given, dyn)

\* mutant of changeDynamics: the list is given up once handed over
changeDynamicsClearing(ds) ==
  [dynamics |-> NoDynamics, passed |-> viewportChangeDynamics(ds.passed, ds.dynamics)]

\* DynamicsContext.changeDynamics on ds = [dynamics, passed]
changeDynamics(ds) ==
  [dynamics |-> ds.dynamics, passed |-> viewportChangeDynamics(ds.passed, ds.dynamics)]

\* --------------------------------------------------- ScrollPositionMaintainer
\* no maintainer constructed: no _storage map (defined: a maintainer is in use)
NoStorage == [defined |-> FALSE, map |-> <<>>]

\* the document: root holds child1 and child2, child1 holds leaf
Elements == {"root", "child1", "child2", "leaf"}

\* el.children
Children(el) ==
  CASE el = "root" -> <<"child1", "child2">>
    [] el = "child1" -> <<"leaf">>
    [] OTHER -> <<>>

\* the element and its descendants
RECURSIVE Subtree(_)
Subtree(el) == {el} \cup UNION {Subtree(Children(el)[i]) : i \in 1..Len(Children(el))}

ScrollTops == 0..MaxScroll

\* Map.set
MapSet(m, key, value) ==
  [k \in DOMAIN m \cup {key} |-> IF k = key THEN value ELSE m[k]]

\* ScrollPositionMaintainer.saveScrollPositions(elems, storage) with the
\* scroll positions top: the map afterwards
RECURSIVE saveScrollPositions(_, _, _)
saveScrollPositions(elems, map, top) ==
  IF elems = <<>> THEN map
  ELSE LET el == Head(elems)
           m1 == IF top[el] # 0 THEN MapSet(map, el, top[el]) ELSE map
           m2 == saveScrollPositions(Children(el), m1, top)
       IN saveScrollPositions(Tail(elems), m2, top)

\* ScrollPositionMaintainer.restoreScrollPositions(storage): the scroll
\* positions afterwards
restoreScrollPositions(map, top) ==
  [e \in DOMAIN top |-> IF e \in DOMAIN map THEN map[e] ELSE top[e]]

\* ------------------------------------------------------- RpcRequestsHandler
\* RpcRequestsHandler._maxRequestRepeatCount
maxRequestRepeatCount == 10

\* PresentationStatus values a response may carry
PresentationStatuses == {"Success", "BackendTimeout", "Error", "InvalidArgument"}

\* one requestRepeatedly: pc is where it stands (awaiting the response of
\* func, returned, thrown a PresentationError, rejected by func itself),
\* calls the calls of func made, response the status of the latest response,
\* error the status the PresentationError carries; done lists the outcomes
\* [pc, calls, error] of the requests made before
NoRequest ==
  [pc |-> "idle", repeatCount |-> 0, calls |-> 0, response |-> "none", error |-> "none",
   done |-> <<>>]

\* mutant of requestRepeatedly: the count is compared with <=
requestRepeatedlyInclusive(r, statusCode) ==
  LET r1 == [r EXCEPT !.response = statusCode]
  IN IF statusCode = "Success" THEN [r1 EXCEPT !.pc = "returned"]
     ELSE IF statusCode = "BackendTimeout" /\ r.repeatCount <= maxRequestRepeatCount
     THEN [r1 EXCEPT !.repeatCount = @ + 1, !.calls = @ + 1]
     ELSE [r1 EXCEPT !.pc = "thrown", !.error = statusCode]

\* RpcRequestsHandler.requestRepeatedly from the response of func on: the
\* recursive call calls func again and awaits its response
requestRepeatedly(r, statusCode) ==
  LET r1 == [r EXCEPT !.response = statusCode]
  IN IF statusCode = "Success" THEN [r1 EXCEPT !.pc = "returned"]
     ELSE IF statusCode = "BackendTimeout" /\ r.repeatCount < maxRequestRepeatCount
     THEN [r1 EXCEPT !.repeatCount = @ + 1, !.calls = @ + 1]
     ELSE [r1 EXCEPT !.pc = "thrown", !.error = statusCode]

\* ---------------------------------------------------------------- state
St == [decorations |-> decorations, cache |-> cache, nextObj |-> nextObj]

CachedIds(c) == UNION {{c[d][i].id : i \in 1..Len(c[d])} : d \in DOMAIN c}

Apply(s1) ==
  /\ decorations' = s1.decorations
  /\ cache' = s1.cache
  /\ nextObj' = s1.nextObj
  /\ everCached' = everCached \cup CachedIds(s1.cache)

Op(name, d) == [op |-> name, dec |-> d]

Idle == pending = <<>> /\ stack = <<>>

\* the DecorateContext side before the first frame
InitDeco ==
  /\ decorators = <<>>
  /\ decorationsValid = FALSE
  /\ pending = <<>>
  /\ stack = <<>>
  /\ curCacheableDecorator = Undefined
  /\ decorations = EmptyDecorations
  /\ cache = <<>>
  /\ nextId = 1
  /\ nextObj = 1
  /\ disposeCount = [owner |-> [i \in Ids |-> 0], graphic |-> [i \in Ids |-> 0]]
  /\ nCalls = 0
  /\ pre = EmptyDecorations
  /\ produced = [d \in Decorators |-> FALSE]
  /\ partial = {}
  /\ everCached = {}
  /\ last = Op("-", "-")

\* a new SceneContext, nothing requested
InitScene ==
  /\ sceneContext = NewSceneContext
  /\ scopes = <<>>
  /\ requested = <<>>
  /\ markCalled = FALSE

\* no call made on the render target, no DynamicsContext filled, no grid
\* drawn, no ScrollPositionMaintainer constructed
InitDynamics ==
  /\ dynamics = NoDynamics
  /\ passed = <<>>

InitScroll ==
  /\ scrollTop = [e \in Elements |-> 0]
  /\ storage = NoStorage
  /\ atConstruction = NoStorage

\* no request made on the RpcRequestsHandler
InitRpc == rpc = NoRequest

InitAux ==
  /\ target = [classifiers |-> {}, drapes |-> {}]
  /\ targetLog = NoTargetCalls
  /\ InitDynamics
  /\ grid = <<>>
  /\ InitScroll
  /\ InitRpc

Init ==
  /\ InitDeco
  /\ canvasLog = <<>>
  /\ InitScene
  /\ InitAux

\* ------------------------------------------------- ViewManager / Viewport
\* ViewManager.addDecorator
AddDecorator(d) ==
  /\ UNCHANGED <<canvasLog, sceneVars, auxVars>>
  /\ Idle
  /\ d \notin Range(decorators)
  /\ decorators' = SelectSeq(DecoratorOrder, LAMBDA x : x \in Range(decorators) \cup {d})
  /\ decorationsValid' = FALSE
  /\ last' = Op("-", "-")
  /\ UNCHANGED <<pending, stack, curCacheableDecorator, decorations, cache, nextId, nextObj,
                 disposeCount, nCalls, pre, produced, partial, everCached>>

\* ViewManager.dropDecorator: unregisters the decorator and clears its cache entry
DropDecorator(d) ==
  /\ UNCHANGED <<canvasLog, sceneVars, auxVars>>
  /\ Idle
  /\ d \in Range(decorators)
  /\ decorators' = SeqRemove(decorators, d)
  /\ cache' = dropCachedDecorations(cache, d)
  /\ disposeCount' = disposeCachedDecorations(disposeCount, getCachedDecorations(cache, d))
  /\ produced' = [produced EXCEPT ![d] = FALSE]
  /\ partial' = partial \ {d}
  /\ decorationsValid' = FALSE
  /\ last' = Op("-", "-")
  /\ UNCHANGED <<pending, stack, curCacheableDecorator, decorations, nextId, nextObj, nCalls,
                 pre, everCached>>

\* Viewport.invalidateDecorations
InvalidateDecorations ==
  /\ UNCHANGED <<canvasLog, sceneVars, auxVars>>
  /\ Idle
  /\ decorationsValid' = FALSE
  /\ last' = Op("-", "-")
  /\ UNCHANGED <<decorators, pending, stack, curCacheableDecorator, decorations, cache, nextId,
                 nextObj, disposeCount, nCalls, pre, produced, partial, everCached>>

\* Viewport.invalidateCachedDecorations
InvalidateCachedDecorations(d) ==
  /\ UNCHANGED <<canvasLog, sceneVars, auxVars>>
  /\ Idle
  /\ cache' = dropCachedDecorations(cache, d)
  /\ disposeCount' = disposeCachedDecorations(disposeCount, getCachedDecorations(cache, d))
  /\ produced' = [produced EXCEPT ![d] = FALSE]
  /\ partial' = partial \ {d}
  /\ decorationsValid' = FALSE
  /\ last' = Op("-", "-")
  /\ UNCHANGED <<decorators, pending, stack, curCacheableDecorator, decorations, nextId,
                 nextObj, nCalls, pre, everCached>>

\* Viewport.drawFrame: when the decorations are not valid a new Decorations
\* bundle is filled through a new DecorateContext, decorator by decorator
DrawFrame ==
  /\ UNCHANGED <<canvasLog, sceneVars, auxVars>>
  /\ Idle
  /\ IF decorationsValid
     THEN UNCHANGED <<decorationsValid, pending, decorations, disposeCount, nCalls,
                      curCacheableDecorator>>
     ELSE /\ decorationsValid' = TRUE
          /\ pending' = decorators
          /\ decorations' = EmptyDecorations
          /\ disposeCount' = disposeDecorations(disposeCount, decorations)
          /\ nCalls' = 0
          /\ curCacheableDecorator' = Undefined
  /\ last' = Op("-", "-")
  /\ UNCHANGED <<decorators, stack, cache, nextId, nextObj, pre, produced, partial,
                 everCached>>

\* ------------------------------------------------------------ frame loop
\* mutant of replays: the cache is not consulted
replaysNever(c, decorator) == FALSE

\* addFromDecorator: the decorator opted in and the viewport holds an entry for it
replays(c, decorator) ==
  useCachedDecorations[decorator] /\ HasCachedDecorations(c, decorator)

\* mutant of cacheableDecorator: every decorator is recorded
cacheableDecoratorAny(decorator) == decorator

\* addFromDecorator: the value _curCacheableDecorator has while decorate runs
cacheableDecorator(decorator) ==
  IF useCachedDecorations[decorator] THEN decorator ELSE Undefined

\* DecorateContext.addFromDecorator, up to the call of decorator.decorate.
\* A failed assertion throws before the try block is entered; a replay runs
\* the finally block and returns.
AddFromDecorator ==
  /\ UNCHANGED <<canvasLog, sceneVars, auxVars>>
  /\ pending # <<>>
  /\ stack = <<>>
  /\ LET decorator == Head(pending)
     IN IF curCacheableDecorator # Undefined
        THEN /\ \E goOn \in BOOLEAN : pending' = IF goOn THEN Tail(pending) ELSE <<>>
             /\ last' = Op("assert", decorator)
             /\ UNCHANGED <<stack, curCacheableDecorator, decorations, cache, nextObj, nCalls,
                            pre, everCached>>
        ELSE IF replays(cache, decorator)
        THEN /\ Apply(restoreCache(St, curCacheableDecorator,
                                   getCachedDecorations(cache, decorator)))
             /\ curCacheableDecorator' = Undefined
             /\ pending' = Tail(pending)
             /\ last' = Op("replay", decorator)
             /\ UNCHANGED <<stack, nCalls, pre>>
        ELSE /\ curCacheableDecorator' = cacheableDecorator(decorator)
             /\ stack' = <<decorator>>
             /\ pre' = decorations
             /\ nCalls' = 0
             /\ pending' = Tail(pending)
             /\ last' = Op("decorate", decorator)
             /\ UNCHANGED <<decorations, cache, nextObj, everCached>>
  /\ UNCHANGED <<decorators, decorationsValid, nextId, disposeCount, produced, partial>>

\* decorate is running: the decorator may call the context
InFrame == stack # <<>>

\* what every call on the context leaves alone
Called ==
  /\ UNCHANGED <<canvasLog, sceneVars, auxVars>>
  /\ nextId' = nextId + 1
  /\ UNCHANGED <<decorators, decorationsValid, pending, stack, curCacheableDecorator,
                 disposeCount, pre, partial, last>>

\* one of the four add-calls
Added ==
  /\ nCalls < MaxCalls
  /\ nCalls' = nCalls + 1
  /\ produced' = [produced EXCEPT ![Head(stack)] = TRUE]

\* a call of addDecoration(type, graphic) with a newly built graphic, or of
\* addDecorationFromBuilder(builder) with a builder of that type
AddDecoration(type, fromBuilder) ==
  /\ InFrame /\ nextId <= MaxId
  /\ Apply(IF fromBuilder
           THEN addDecorationFromBuilder(St, curCacheableDecorator,
                                         [type |-> type, graphic |-> RawGraphic(nextId)])
           ELSE addDecoration(St, curCacheableDecorator, type, RawGraphic(nextId)))
  /\ Added
  /\ Called

\* a call of addCanvasDecoration(decoration, atFront) with a new CanvasDecoration
AddCanvasDecoration(atFront) ==
  /\ InFrame /\ nextId <= MaxId
  /\ Apply(addCanvasDecoration(St, curCacheableDecorator, nextId, atFront))
  /\ Added
  /\ Called

\* a call of addHtmlDecoration(element) with a newly created element
AddHtmlDecoration ==
  /\ InFrame /\ nextId <= MaxId
  /\ Apply(addHtmlDecoration(St, curCacheableDecorator, nextId))
  /\ Added
  /\ Called

\* a call of setSkyBox(graphic) with a newly built graphic
SetSkyBox ==
  /\ InFrame /\ nextId <= MaxId
  /\ Apply(setSkyBox(St, RawGraphic(nextId)))
  /\ UNCHANGED <<nCalls, produced>>
  /\ Called

\* a call of setViewBackground(graphic) with a newly built graphic
SetViewBackground ==
  /\ InFrame /\ nextId <= MaxId
  /\ Apply(setViewBackground(St, RawGraphic(nextId)))
  /\ UNCHANGED <<nCalls, produced>>
  /\ Called

\* mutant of Finally: the bundle is put back as it was when decorate was entered
FinallyRollback ==
  /\ curCacheableDecorator' = Undefined
  /\ stack' = Tail(stack)
  /\ pre' = EmptyDecorations
  /\ decorations' = pre
  /\ UNCHANGED <<cache, nextObj, everCached>>

\* mutant of Finally: _curCacheableDecorator is left as it is
FinallyNoReset ==
  /\ UNCHANGED curCacheableDecorator
  /\ stack' = Tail(stack)
  /\ pre' = EmptyDecorations
  /\ UNCHANGED <<decorations, cache, nextObj, everCached>>

\* the finally block of addFromDecorator
Finally ==
  /\ curCacheableDecorator' = Undefined
  /\ stack' = Tail(stack)
  /\ pre' = EmptyDecorations
  /\ UNCHANGED <<decorations, cache, nextObj, everCached>>

\* decorate returns
DecorateReturn ==
  /\ UNCHANGED <<canvasLog, sceneVars, auxVars>>
  /\ stack # <<>>
  /\ Finally
  /\ last' = Op("return", Head(stack))
  /\ UNCHANGED <<decorators, decorationsValid, pending, nextId, disposeCount, nCalls,
                 produced, partial>>

\* decorate throws: the exception leaves addFromDecorator; the frame loop goes
\* on with the next decorator or gives up the frame (a decorate that made the
\* call itself is still running)
DecorateThrow ==
  /\ UNCHANGED <<canvasLog, sceneVars, auxVars>>
  /\ stack # <<>>
  /\ Finally
  /\ \E goOn \in BOOLEAN : pending' = IF goOn \/ Len(stack) > 1 THEN pending ELSE <<>>
  /\ partial' = IF curCacheableDecorator # Undefined
                THEN partial \cup {curCacheableDecorator} ELSE partial
  /\ last' = Op("throw", Head(stack))
  /\ UNCHANGED <<decorators, decorationsValid, nextId, disposeCount, nCalls, produced>>

Next ==
  \/ \E d \in Decorators : AddDecorator(d)
  \/ \E d \in Decorators : DropDecorator(d)
  \/ InvalidateDecorations
  \/ \E d \in Decorators : InvalidateCachedDecorations(d)
  \/ DrawFrame
  \/ AddFromDecorator
  \/ \E type \in GraphicTypes, fromBuilder \in BOOLEAN : AddDecoration(type, fromBuilder)
  \/ \E atFront \in BOOLEAN : AddCanvasDecoration(atFront)
  \/ AddHtmlDecoration
  \/ SetSkyBox
  \/ SetViewBackground
  \/ DecorateReturn
  \/ DecorateThrow

Spec == Init /\ [][Next]_vars

\* a call of addDecoration(type, graphic) on the context made by the frame
\* code itself, outside addFromDecorator
DirectAddDecoration(type) ==
  /\ UNCHANGED <<canvasLog, sceneVars, auxVars>>
  /\ stack = <<>> /\ nextId <= MaxId
  /\ Apply(addDecoration(St, curCacheableDecorator, type, RawGraphic(nextId)))
  /\ nextId' = nextId + 1
  /\ last' = Op("direct", "-")
  /\ UNCHANGED <<decorators, decorationsValid, pending, stack, curCacheableDecorator,
                 disposeCount, nCalls, pre, produced, partial>>

\* frames of decorators that stay registered, with add-calls made by the
\* decorators and by the frame code
NextDirect ==
  \/ \E d \in Decorators : AddDecorator(d)
  \/ InvalidateDecorations
  \/ DrawFrame
  \/ AddFromDecorator
  \/ \E type \in GraphicTypes, fromBuilder \in BOOLEAN : AddDecoration(type, fromBuilder)
  \/ \E atFront \in BOOLEAN : AddCanvasDecoration(atFront)
  \/ AddHtmlDecoration
  \/ DecorateReturn
  \/ DecorateThrow
  \/ \E type \in GraphicTypes : DirectAddDecoration(type)

SpecDirect == Init /\ [][NextDirect]_vars

TypeOK ==
  /\ curCacheableDecorator \in Decorators \cup {Undefined}
  /\ nextId \in 1..(MaxId + 1)
  /\ nextObj \in 1..nextId
  /\ nCalls \in 0..MaxCalls
  /\ DOMAIN cache \subseteq Decorators

\* ------------------------------------------- addFromDecorator from decorate
\* A call of addFromDecorator(decorator) made by the decorate that is running:
\* the same method, entered while its earlier invocation has not returned. A
\* failed assertion throws into the calling decorate.
NestedAddFromDecorator(decorator) ==
  /\ InFrame /\ Len(stack) < MaxNesting
  /\ nCalls < MaxCalls
  /\ nCalls' = nCalls + 1
  /\ IF curCacheableDecorator # Undefined
     THEN /\ last' = Op("assert", decorator)
          /\ UNCHANGED <<stack, curCacheableDecorator, decorations, cache, nextObj, pre,
                         everCached>>
     ELSE IF replays(cache, decorator)
     THEN /\ Apply(restoreCache(St, curCacheableDecorator,
                                getCachedDecorations(cache, decorator)))
          /\ curCacheableDecorator' = Undefined
          /\ last' = Op("replay", decorator)
          /\ UNCHANGED <<stack, pre>>
     ELSE /\ curCacheableDecorator' = cacheableDecorator(decorator)
          /\ stack' = <<decorator>> \o stack
          /\ pre' = decorations
          /\ last' = Op("decorate", decorator)
          /\ UNCHANGED <<decorations, cache, nextObj, everCached>>
  /\ UNCHANGED <<decorators, decorationsValid, pending, nextId, disposeCount, produced,
                 partial, canvasLog, sceneVars, auxVars>>

\* the frame loop with decorators that call addFromDecorator themselves and
\* add html decorations
NextNested ==
  \/ \E d \in Decorators : AddDecorator(d)
  \/ InvalidateDecorations
  \/ DrawFrame
  \/ AddFromDecorator
  \/ \E d \in Decorators : NestedAddFromDecorator(d)
  \/ AddHtmlDecoration
  \/ DecorateReturn
  \/ DecorateThrow

SpecNested == Init /\ [][NextNested]_vars

\* ------------------------------------------------ canvas decorations of a decorate
\* decorate of the decorator N has been entered in a frame
InitCanvas ==
  /\ decorators = <<"N">>
  /\ decorationsValid = TRUE
  /\ pending = <<>>
  /\ stack = <<"N">>
  /\ curCacheableDecorator = cacheableDecorator("N")
  /\ decorations = EmptyDecorations
  /\ cache = <<>>
  /\ nextId = 1
  /\ nextObj = 1
  /\ disposeCount = [owner |-> [i \in Ids |-> 0], graphic |-> [i \in Ids |-> 0]]
  /\ nCalls = 0
  /\ pre = EmptyDecorations
  /\ produced = [d \in Decorators |-> FALSE]
  /\ partial = {}
  /\ everCached = {}
  /\ last = Op("decorate", "N")
  /\ canvasLog = <<>>
  /\ InitScene
  /\ InitAux

\* a call of addCanvasDecoration(decoration, atFront) with a new CanvasDecoration,
\* noted in the log of the calls
CanvasCall(atFront) ==
  /\ InFrame /\ Len(canvasLog) < MaxCanvas
  /\ Apply(addCanvasDecoration(St, curCacheableDecorator, nextId, atFront))
  /\ canvasLog' = Append(canvasLog, [decoration |-> nextId, atFront |-> atFront])
  /\ nextId' = nextId + 1
  /\ UNCHANGED <<decorators, decorationsValid, pending, stack, curCacheableDecorator,
                 disposeCount, nCalls, pre, produced, partial, last, sceneVars,
                 auxVars>>

NextCanvas ==
  \/ \E atFront \in BOOLEAN : CanvasCall(atFront)
  \/ DecorateReturn

SpecCanvas == InitCanvas /\ [][NextCanvas]_vars

\* ------------------------------------------------- one SceneContext in use
\* the graphics output to the scene so far
SceneGraphics(sc) == Len(sc.foreground) + Len(sc.background) + Len(sc.overlay)

\* a call of outputGraphic(graphic) with a new graphic
OutputGraphic ==
  /\ SceneGraphics(sceneContext) < MaxGraphics
  /\ sceneContext' = outputGraphic(sceneContext, SceneGraphics(sceneContext) + 1)
  /\ UNCHANGED <<decoVars, canvasLog, auxVars, scopes, requested, markCalled>>

\* a call of insertMissingTile(tile), the tile having the given load status
InsertMissingTile(tile, loadStatus) ==
  /\ sceneContext' = insertMissingTile(sceneContext, tile, loadStatus)
  /\ UNCHANGED <<decoVars, canvasLog, auxVars, scopes, requested, markCalled>>

\* a call of markChildrenLoading()
MarkChildrenLoading ==
  /\ sceneContext' = markChildrenLoading(sceneContext)
  /\ markCalled' = TRUE
  /\ UNCHANGED <<decoVars, canvasLog, auxVars, scopes, requested>>

\* a call of requestMissingTiles()
RequestMissingTiles ==
  /\ LET ss == requestMissingTiles([ctx |-> sceneContext, requested |-> requested])
     IN /\ sceneContext' = ss.ctx
        /\ requested' = ss.requested
  /\ UNCHANGED <<decoVars, canvasLog, auxVars, scopes, markCalled>>

\* a call of withGraphicType(type, func), up to the call of func
WithGraphicType(type) ==
  /\ Len(scopes) < MaxDepth
  /\ scopes' = <<[prevType |-> sceneContext.graphicType, type |-> type]>> \o scopes
  /\ sceneContext' = withGraphicTypeEnter(sceneContext, type)
  /\ UNCHANGED <<decoVars, canvasLog, auxVars, requested, markCalled>>

\* func returns: withGraphicType runs its last statement and returns
FuncReturn ==
  /\ scopes # <<>>
  /\ sceneContext' = withGraphicTypeLeave(sceneContext, Head(scopes).prevType)
  /\ scopes' = Tail(scopes)
  /\ UNCHANGED <<decoVars, canvasLog, auxVars, requested, markCalled>>

\* func throws: the exception leaves withGraphicType at the call of func
FuncThrow ==
  /\ scopes # <<>>
  /\ scopes' = Tail(scopes)
  /\ UNCHANGED <<decoVars, canvasLog, auxVars, sceneContext, requested, markCalled>>

NextScene ==
  \/ OutputGraphic
  \/ \E tile \in Tiles, loadStatus \in TileLoadStatuses : InsertMissingTile(tile, loadStatus)
  \/ MarkChildrenLoading
  \/ RequestMissingTiles
  \/ \E type \in TileGraphicTypes : WithGraphicType(type)
  \/ FuncReturn
  \/ FuncThrow

SpecScene == Init /\ [][NextScene]_vars

\* ----------------------------- planar classifiers and drapes of one scene
\* a new SceneContext on a render target that holds classifiers and drapes
\* of earlier frames for some model ids
InitClassifier ==
  /\ InitDeco
  /\ canvasLog = <<>>
  /\ InitScene
  /\ target \in [classifiers : SUBSET ModelIds, drapes : SUBSET ModelIds]
  /\ targetLog = NoTargetCalls
  /\ InitDynamics
  /\ grid = <<>>
  /\ InitScroll
  /\ InitRpc

\* a call of addPlanarClassifier(props, tileTree, classifiedTree) with
\* props.modelId = id; canCreate: createPlanarClassifier, if asked, returns one
AddPlanarClassifier(id, canCreate) ==
  /\ targetLog.calls < MaxClassCalls
  /\ LET cs == addPlanarClassifier([ctx |-> sceneContext, log |-> targetLog], target, id,
                                   canCreate)
     IN /\ sceneContext' = cs.ctx
        /\ targetLog' = cs.log
  /\ UNCHANGED <<decoVars, canvasLog, scopes, requested, markCalled, target, dynVars, grid,
                 scrollVars, rpc>>

\* a call of addBackgroundDrapedModel(drapedTreeRef, heightRange); canCreate:
\* createBackgroundMapDrape, if asked, returns a drape
AddBackgroundDrapedModel(drapedTree, canCreate) ==
  /\ targetLog.calls < MaxClassCalls
  /\ LET cs == addBackgroundDrapedModel([ctx |-> sceneContext, log |-> targetLog], target,
                                        drapedTree, canCreate)
     IN /\ sceneContext' = cs.ctx
        /\ targetLog' = cs.log
  /\ UNCHANGED <<decoVars, canvasLog, scopes, requested, markCalled, target, dynVars, grid,
                 scrollVars, rpc>>

\* the tile tree of a draped tree reference: loaded, with its model id, or not
DrapedTrees == [available : BOOLEAN, modelId : ModelIds]

NextClassifier ==
  \/ \E id \in ModelIds, canCreate \in BOOLEAN : AddPlanarClassifier(id, canCreate)
  \/ \E drapedTree \in DrapedTrees, canCreate \in BOOLEAN :
        AddBackgroundDrapedModel(drapedTree, canCreate)

SpecClassifier == InitClassifier /\ [][NextClassifier]_vars

\* ------------------------------------------------- one DynamicsContext in use
\* a call of addGraphic(graphic) with a new graphic
AddGraphic ==
  /\ Len(dynamics.list) < MaxDynGraphics
  /\ dynamics' = addGraphic(dynamics, RawGraphic(Len(dynamics.list) + 1))
  /\ UNCHANGED <<decoVars, canvasLog, sceneVars, classVars, passed, grid, scrollVars, rpc>>

\* a call of changeDynamics()
ChangeDynamics ==
  /\ Len(passed) < MaxChanges
  /\ LET ds == changeDynamics([dynamics |-> dynamics, passed |-> passed])
     IN /\ dynamics' = ds.dynamics
        /\ passed' = ds.passed
  /\ UNCHANGED <<decoVars, canvasLog, sceneVars, classVars, grid, scrollVars, rpc>>

NextDynamics ==
  \/ AddGraphic
  \/ ChangeDynamics

SpecDynamics == Init /\ [][NextDynamics]_vars

\* ------------------------------------------- drawStandardGrid in a decorate
\* what the clip of the frustum with the grid plane gives
GoodClip ==
  [geomDefined |-> TRUE, geomLength |-> 1, isLoop |-> TRUE, children |-> 1,
   isLineString |-> TRUE, finalPoints |-> 5]

Clips ==
  {GoodClip,
   [GoodClip EXCEPT !.finalPoints = 4],
   [GoodClip EXCEPT !.finalPoints = 3],
   [GoodClip EXCEPT !.isLineString = FALSE],
   [GoodClip EXCEPT !.children = 0],
   [GoodClip EXCEPT !.children = 2],
   [GoodClip EXCEPT !.isLoop = FALSE],
   [GoodClip EXCEPT !.geomLength = 0],
   [GoodClip EXCEPT !.geomLength = 2],
   [GoodClip EXCEPT !.geomDefined = FALSE]}

EyeDots == {-1000, -4, 4, 5, 1000}

Spacings == {10, 20, 40}

PixelSizes == {1, 2}

GridsPerRefs == {0, 1, 2}

RefRepetitions ==
  {[x |-> 2, y |-> 2], [x |-> 12, y |-> 2], [x |-> 2, y |-> 12], [x |-> 99, y |-> 100],
   [x |-> 100, y |-> 99], [x |-> 12, y |-> 120], [x |-> 120, y |-> 120]}

Profiles == {"far", "closing"}

\* a grid of a few well separated lines, seen from above
PlainGrid ==
  [isCameraOn |-> FALSE, normOk |-> TRUE, eyeDot |-> 1000, planeOk |-> TRUE,
   clip |-> GoodClip, meterPerPixel |-> 1, spacing |-> [x |-> 40, y |-> 40],
   gridsPerRef |-> 2, nRef |-> [x |-> 2, y |-> 2],
   unambiguous |-> [x |-> FALSE, y |-> FALSE], profile |-> "far"]

\* the views: every way of looking at the plain grid
ViewInputs ==
  {[PlainGrid EXCEPT !.isCameraOn = c, !.normOk = n, !.eyeDot = e, !.planeOk = p, !.clip = k] :
     c \in BOOLEAN, n \in BOOLEAN, e \in EyeDots, p \in BOOLEAN, k \in Clips}

\* the grids: every spacing, pixel size and extent, seen from above; the
\* distances of the lines on screen are read with the camera on only
LineInputs ==
  {[PlainGrid EXCEPT !.isCameraOn = c, !.meterPerPixel = m, !.spacing = [x |-> sx, y |-> sy],
                     !.gridsPerRef = gpr, !.nRef = n, !.unambiguous = [x |-> ux, y |-> uy],
                     !.profile = pr] :
     c \in BOOLEAN, m \in PixelSizes, sx \in Spacings, sy \in Spacings,
     gpr \in GridsPerRefs, n \in RefRepetitions, ux \in BOOLEAN, uy \in BOOLEAN,
     pr \in Profiles}

GridInputs ==
  ViewInputs \cup {g \in LineInputs :
                     g.isCameraOn \/ g.profile = "far"}

\* decorate of a decorator, recorded (A) or not (N), has been entered in a frame
InitGrid ==
  /\ \E d \in {"A", "N"} :
       /\ decorators = <<d>>
       /\ stack = <<d>>
       /\ curCacheableDecorator = cacheableDecorator(d)
       /\ last = Op("decorate", d)
  /\ decorationsValid = TRUE
  /\ pending = <<>>
  /\ decorations = EmptyDecorations
  /\ cache = <<>>
  /\ nextId = 1
  /\ nextObj = 1
  /\ disposeCount = [owner |-> [i \in Ids |-> 0], graphic |-> [i \in Ids |-> 0]]
  /\ nCalls = 0
  /\ pre = EmptyDecorations
  /\ produced = [d \in Decorators |-> FALSE]
  /\ partial = {}
  /\ everCached = {}
  /\ canvasLog = <<>>
  /\ InitScene
  /\ InitAux

\* mutant of finishGrid: the graphic is put into the bundle directly
finishGridDirect(st, cur, out, graphic) ==
  IF out.builder
  THEN putDecoration(st, "WorldDecoration", graphic)
  ELSE st

\* the end of drawStandardGrid: this.addDecorationFromBuilder(builder) with the
\* builder created for GraphicType.WorldDecoration, when one was created
finishGrid(st, cur, out, graphic) ==
  IF out.builder
  THEN addDecorationFromBuilder(st, cur, [type |-> "WorldDecoration", graphic |-> graphic])
  ELSE st

\* a call of drawStandardGrid for the view and arguments g
DrawStandardGrid(g) ==
  /\ InFrame /\ grid = <<>>
  /\ grid' = <<[in |-> g, out |-> drawStandardGrid(g)]>>
  /\ LET out == grid'[1].out
     IN /\ Apply(finishGrid(St, curCacheableDecorator, out, RawGraphic(nextId)))
        /\ nextId' = IF out.builder THEN nextId + 1 ELSE nextId
        /\ nCalls' = IF out.builder THEN nCalls + 1 ELSE nCalls
        /\ produced' = IF out.builder THEN [produced EXCEPT ![Head(stack)] = TRUE]
                       ELSE produced
  /\ UNCHANGED <<decorators, decorationsValid, pending, stack, curCacheableDecorator,
                 disposeCount, pre, partial, last>>
  /\ UNCHANGED <<canvasLog, sceneVars, classVars, dynVars, scrollVars, rpc>>

NextGrid ==
  \/ \E g \in GridInputs : DrawStandardGrid(g)
  \/ DecorateReturn
  \/ DecorateThrow

SpecGrid == InitGrid /\ [][NextGrid]_vars

\* ------------------------------------------- one ScrollPositionMaintainer
\* the page is scrolled: el.scrollTop = v
Scroll(el, v) ==
  /\ scrollTop[el] # v
  /\ scrollTop' = [scrollTop EXCEPT ![el] = v]
  /\ UNCHANGED <<storage, atConstruction>>
  /\ UNCHANGED <<decoVars, canvasLog, sceneVars, classVars, dynVars, grid, rpc>>

\* new ScrollPositionMaintainer(el); atConstruction notes the scroll
\* positions of the subtree of el at that moment
Construct(el) ==
  /\ ~storage.defined
  /\ storage' = [defined |-> TRUE, map |-> saveScrollPositions(<<el>>, <<>>, scrollTop)]
  /\ atConstruction' = [defined |-> TRUE, map |-> [e \in Subtree(el) |-> scrollTop[e]]]
  /\ UNCHANGED scrollTop
  /\ UNCHANGED <<decoVars, canvasLog, sceneVars, classVars, dynVars, grid, rpc>>

\* maintainer.dispose(): the maintainer is no longer in use, its map keeps
\* its entries
Dispose ==
  /\ storage.defined
  /\ scrollTop' = restoreScrollPositions(storage.map, scrollTop)
  /\ storage' = [storage EXCEPT !.defined = FALSE]
  /\ UNCHANGED atConstruction
  /\ UNCHANGED <<decoVars, canvasLog, sceneVars, classVars, dynVars, grid, rpc>>

NextScroll ==
  \/ \E el \in Elements, v \in ScrollTops : Scroll(el, v)
  \/ \E el \in Elements : Construct(el)
  \/ Dispose

SpecScroll == Init /\ [][NextScroll]_vars

\* ------------------------------------------------- one RpcRequestsHandler
\* what the decorations, the scene and the other helpers keep
RpcOnly == UNCHANGED <<decoVars, canvasLog, sceneVars, classVars, dynVars, grid, scrollVars>>

\* RpcRequestsHandler.request: requestRepeatedly is entered with repeatCount
\* 1, calls func and awaits its response
Request ==
  /\ rpc.pc # "awaiting"
  /\ Len(rpc.done) + (IF rpc.pc = "idle" THEN 0 ELSE 1) < MaxRequests
  /\ rpc' = [pc |-> "awaiting", repeatCount |-> 1, calls |-> 1, response |-> "none",
              error |-> "none",
              done |-> IF rpc.pc = "idle" THEN rpc.done
                       ELSE Append(rpc.done, [pc |-> rpc.pc, calls |-> rpc.calls,
                                              error |-> rpc.error])]
  /\ RpcOnly

\* the response of func arrives with a status
Respond(statusCode) ==
  /\ rpc.pc = "awaiting"
  /\ rpc' = requestRepeatedly(rpc, statusCode)
  /\ RpcOnly

\* func rejects: the await throws what func threw
Reject ==
  /\ rpc.pc = "awaiting"
  /\ rpc' = [rpc EXCEPT !.pc = "rejected"]
  /\ RpcOnly

NextRpc ==
  \/ Request
  \/ \E statusCode \in PresentationStatuses : Respond(statusCode)
  \/ Reject

SpecRpc == Init /\ [][NextRpc]_vars

\* every call of func is answered or rejected
SpecRpcFair ==
  SpecRpc /\ WF_vars((\E statusCode \in PresentationStatuses : Respond(statusCode)) \/ Reject)


\* =================================================================== claims
\* a step in which addFromDecorator(d) is called
CallOf(d) == stack = <<>> /\ pending # <<>> /\ Head(pending) = d /\ pending' # pending

\* a step in which decorate of d is entered
Decorates(d) == stack = <<>> /\ stack' = <<d>>

\* C1: for a decorator whose useCachedDecorations is not true, every call of
\* addFromDecorator invokes decorate, and the cache never holds an entry for it.
C1_NonCachingAlwaysDecorates ==
  [][\A d \in Decorators : ~useCachedDecorations[d] =>
        /\ CallOf(d) => Decorates(d)
        /\ d \notin DOMAIN cache']_vars

\* N is in a decorate invocation that follows an earlier one in which it added
\* a decoration, and it has no cache entry
C1_Witness ==
  /\ stack = <<"N">> /\ last = Op("decorate", "N")
  /\ nCalls = 0 /\ produced["N"]
  /\ "N" \notin DOMAIN cache

\* the entry of d (if any) holds n decorations, and exists exactly when n >= 1
EntryCounts(c, d, n) ==
  IF n = 0 THEN d \notin DOMAIN c ELSE d \in DOMAIN c /\ Len(c[d]) = n

\* C2 (original): the first addFromDecorator of a caching decorator creates an
\* entry for it holding as many items as decorate made add-calls, whatever that
\* number is.
C2_EntryForEveryCount ==
  [][\A d \in Decorators :
        (useCachedDecorations[d] /\ stack = <<d>> /\ stack' = <<>>) =>
           d \in DOMAIN cache' /\ Len(cache'[d]) = nCalls']_vars

\* C2 (amended): from the entry into decorate of a caching decorator without
\* cache entry to the exit of addFromDecorator, the decorator's entry holds one
\* item per add-call made and exists once one add-call has been made (none is
\* created by a decorate that adds nothing), and no other entry is touched.
C2_EntryCountsAddCalls ==
  [][\A d \in Decorators :
        (useCachedDecorations[d] /\ (stack' = <<d>> \/ stack = <<d>>)) =>
           /\ EntryCounts(cache', d, nCalls')
           /\ DOMAIN cache' \ {d} = DOMAIN cache \ {d}
           /\ \A x \in DOMAIN cache \ {d} : cache'[x] = cache[x]]_vars

\* addFromDecorator(A) has returned from a decorate that made two add-calls,
\* and A's new entry holds two items
C2_Witness ==
  /\ stack = <<>> /\ last = Op("return", "A")
  /\ nCalls = 2
  /\ "A" \in DOMAIN cache /\ Len(cache["A"]) = 2

\* the list of the bundle that takes graphics of a type
ListOf(decs, type) ==
  CASE type = "Scene" -> decs.normal
    [] type = "WorldDecoration" -> decs.world
    [] type = "WorldOverlay" -> decs.worldOverlay
    [] type = "ViewOverlay" -> decs.viewOverlay
    [] OTHER -> <<>>

\* everything the entry holds is in the bundle, each graphic owner in the list
\* of its type; the background is the one of the last ViewBackground item
Replayed(cds, decs) ==
  \A i \in 1..Len(cds) :
     CASE cds[i].type = "graphic" /\ cds[i].graphicType # "ViewBackground" ->
            cds[i].graphicOwner \in Range(ListOf(decs, cds[i].graphicType))
       [] cds[i].type = "graphic" /\ cds[i].graphicType = "ViewBackground" ->
            \E j \in i..Len(cds) : /\ cds[j].type = "graphic"
                                   /\ cds[j].graphicType = "ViewBackground"
                                   /\ decs.viewBackground = cds[j].graphicOwner
       [] cds[i].type = "canvas" -> cds[i].canvasDecoration \in Range(decs.canvasDecorations)
       [] cds[i].type = "html" -> cds[i].htmlElement \in Range(decs.html)
       [] OTHER -> FALSE

\* C3: a call of addFromDecorator for a caching decorator that has a cache
\* entry does not invoke decorate; the entry is replayed into the bundle.
C3_CachedIsReplayed ==
  [][\A d \in Decorators :
        (useCachedDecorations[d] /\ d \in DOMAIN cache /\ CallOf(d)) =>
           /\ ~Decorates(d)
           /\ stack' = <<>>
           /\ cache' = cache
           /\ Replayed(cache[d], decorations')]_vars

\* A's entry has just been replayed in a frame in which decorate of A did not run
C3_Witness ==
  /\ last = Op("replay", "A")
  /\ "A" \in DOMAIN cache
  /\ Replayed(cache["A"], decorations)
  /\ decorations # EmptyDecorations


\* the bundle that replaying the entry of the recording decorator into the
\* bundle of the decorate entry gives
ReplayOfRecording ==
  restoreCache([decorations |-> pre, cache |-> <<>>, nextObj |-> 1], Undefined,
               getCachedDecorations(cache, curCacheableDecorator)).decorations

SameLists(a, b) ==
  /\ a.normal = b.normal
  /\ a.world = b.world
  /\ a.worldOverlay = b.worldOverlay
  /\ a.viewOverlay = b.viewOverlay
  /\ a.canvasDecorations = b.canvasDecorations
  /\ a.html = b.html

\* C4 (original): replaying the entry recorded by decorate, on top of what was
\* in the bundle when decorate was entered, gives the bundle decorate has
\* produced: every list and the view background are the same.
C4_ReplayEqualsFrame ==
  curCacheableDecorator # Undefined =>
     /\ SameLists(ReplayOfRecording, decorations)
     /\ ReplayOfRecording.viewBackground = decorations.viewBackground

\* C4 (amended): the replay gives the same lists (normal, world, worldOverlay,
\* viewOverlay, canvas, html) in the same order; the view background is the
\* same unless decorate has set it directly with setViewBackground, which is
\* not recorded: the frame then holds that graphic, not a graphic owner.
C4_ReplayEqualsRecorded ==
  curCacheableDecorator # Undefined =>
     /\ SameLists(ReplayOfRecording, decorations)
     /\ \/ ReplayOfRecording.viewBackground = decorations.viewBackground
        \/ decorations.viewBackground.kind = "graphic"

\* B is recording and has added a decoration on top of a bundle another
\* decorator had already filled
C4_Witness ==
  /\ curCacheableDecorator = "B" /\ stack = <<"B">>
  /\ "B" \in DOMAIN cache /\ Len(cache["B"]) = 1
  /\ pre # EmptyDecorations
  /\ decorations # pre

Disposed(dc, owner, n) == dc.owner[owner.id] = n /\ dc.graphic[owner.graphic] = n

\* C5: dropping a decorator removes its cache entry (a decorator that is not
\* registered has none), every graphic owner of a removed entry and the graphic
\* it wraps are disposed exactly once, a cached one is not disposed, and
\* nothing is ever disposed twice.
C5_DropDisposesOnce ==
  [][/\ \A d \in Decorators :
          (d \in Range(decorators) /\ d \notin Range(decorators')) => d \notin DOMAIN cache'
     /\ DOMAIN cache' \subseteq Range(decorators')
     /\ \A d \in (DOMAIN cache) \ (DOMAIN cache') :
          \A o \in OwnersOf(cache[d]) : Disposed(disposeCount', o, 1)
     /\ \A d \in DOMAIN cache' :
          \A o \in OwnersOf(cache'[d]) : Disposed(disposeCount', o, 0)
     /\ \A i \in Ids : disposeCount'.owner[i] <= 1 /\ disposeCount'.graphic[i] <= 1]_vars

\* A recorded a graphic, was dropped, and a frame has been drawn since: the
\* owner and its graphic are disposed, once
C5_Witness ==
  /\ Idle /\ decorationsValid
  /\ "A" \notin Range(decorators) /\ "A" \notin DOMAIN cache
  /\ disposeCount.owner[1] = 1
  /\ \E i \in Ids : disposeCount.graphic[i] = 1
  /\ produced["A"] = FALSE

\* C6: invalidating the frame decorations and drawing frames leaves every
\* cache entry as it is: recording never starts for a decorator that has an
\* entry, and an entry that is not being recorded keeps its length and its
\* objects in every step (only an invalidation of the cache or a drop, between
\* frames, removes it).
C6_FrameKeepsEntries ==
  [][\A d \in DOMAIN cache :
        /\ curCacheableDecorator' = d => curCacheableDecorator = d
        /\ curCacheableDecorator # d =>
             IF Idle /\ Idle'
             THEN d \in DOMAIN cache' => cache'[d] = cache[d]
             ELSE d \in DOMAIN cache' /\ cache'[d] = cache[d]]_vars

\* a frame drawn after an invalidation has replayed B's entry and is complete
C6_Witness ==
  /\ Idle /\ decorationsValid
  /\ last = Op("replay", "B")
  /\ "B" \in DOMAIN cache /\ Len(cache["B"]) = 1

IdsOf(c, d) == IF d \in DOMAIN c THEN {c[d][i].id : i \in 1..Len(c[d])} ELSE {}

\* C7: dropping decorator A leaves the entry of every other decorator as it is,
\* and a CachedDecoration is in one entry only: an object recorded for a
\* decorator is new, never one that was recorded before, for any decorator.
C7_DropLeavesOthers ==
  [][/\ \A a \in Decorators :
          (a \in Range(decorators) /\ a \notin Range(decorators')) =>
             \A b \in (DOMAIN cache) \ {a} : b \in DOMAIN cache' /\ cache'[b] = cache[b]
     /\ \A d \in DOMAIN cache' :
          /\ (IdsOf(cache', d) \ IdsOf(cache, d)) \cap everCached = {}
          /\ Cardinality(IdsOf(cache', d)) = Len(cache'[d])
          /\ \A e \in (DOMAIN cache') \ {d} : IdsOf(cache', d) \cap IdsOf(cache', e) = {}]_vars

\* A recorded a decoration and was dropped while B's entry of one decoration
\* was in the cache; B's entry is still there
C7_Witness ==
  /\ Idle
  /\ "A" \notin Range(decorators) /\ "A" \notin DOMAIN cache
  /\ "B" \in DOMAIN cache /\ Len(cache["B"]) = 1
  /\ cache["B"][1].id = 2
  /\ everCached = {1, 2}
  /\ ~produced["A"]

\* C8: between addFromDecorator calls a decorator has a cache entry exactly
\* when it opted into caching and has added a decoration in decorate since its
\* last invalidation or removal.
C8_CachedIffProduced ==
  stack = <<>> =>
     \A d \in Decorators : d \in DOMAIN cache <=> (useCachedDecorations[d] /\ produced[d])

\* a frame is complete in which A got an entry, B ran decorate without adding
\* anything and N added a decoration
C8_Witness ==
  /\ Idle /\ decorationsValid
  /\ decorators = DecoratorOrder
  /\ "A" \in DOMAIN cache /\ "B" \notin DOMAIN cache
  /\ produced["N"] /\ ~produced["B"]

\* C9: once addFromDecorator has returned or thrown, no cache entry holds the
\* decorations of a decorate invocation that was cut short by an exception.
C9_NoPartialEntry ==
  stack = <<>> => \A d \in DOMAIN cache : d \notin partial

\* C10: when addFromDecorator is left, on every path, _curCacheableDecorator is
\* undefined; so the entry assertion of a following call never fails, and a
\* decoration is only ever recorded under the decorator whose decorate is
\* adding it.
C10_RecordingSlotCleared ==
  [][/\ stack' = <<>> => curCacheableDecorator' = Undefined
     /\ last'.op # "assert"
     /\ \A d \in DOMAIN cache' :
          Len(cache'[d]) > Len(getCachedDecorations(cache, d)) => stack = <<d>>]_vars

\* decorate of A has thrown while recording, and the frame goes on with the
\* next decorator
C10_Witness ==
  /\ last = Op("throw", "A")
  /\ "A" \in partial
  /\ pending # <<>>
  /\ stack = <<>> /\ curCacheableDecorator = Undefined

\* C11: a call of addFromDecorator made from inside a decorator's decorate,
\* whether or not that decorator records into the cache, fails the assertion
\* at the entry of addFromDecorator.
C11_NestedCallAsserts ==
  [][\A d \in Decorators : NestedAddFromDecorator(d) => last'.op = "assert"]_vars

\* the list buckets of a Decorations bundle
ListBuckets == {"normal", "world", "worldOverlay", "viewOverlay", "canvasDecorations", "html"}

\* C12: when decorate throws, the exception leaves addFromDecorator and the
\* bundle is left as it is: what earlier decorators added and what the failing
\* decorator added before the throw stays in it.
C12_ThrowKeepsDecorations ==
  [][(stack # <<>> /\ stack' # stack /\ last'.op = "throw") =>
        /\ last'.dec = Head(stack)
        /\ decorations' = decorations
        /\ \A b \in ListBuckets : Range(pre[b]) \subseteq Range(decorations'[b])]_vars

\* decorate has thrown after adding an html decoration to a bundle that held
\* the html decoration of an earlier decorator: both are in the bundle
C12_Witness ==
  /\ stack = <<>> /\ last.op = "throw"
  /\ nCalls = 1
  /\ Len(decorations.html) = 2

\* the list the placement rule of the claim gives for the first n calls of a
\* log: at the front when the list is empty or atFront, at the back otherwise
RECURSIVE FrontWhenAtFront(_, _)
FrontWhenAtFront(log, n) ==
  IF n = 0 THEN <<>>
  ELSE LET list == FrontWhenAtFront(log, n - 1)
       IN IF list = <<>> \/ log[n].atFront
          THEN <<log[n].decoration>> \o list
          ELSE Append(list, log[n].decoration)

\* C13: addCanvasDecoration places the new item at the front of the list when
\* the list is empty or atFront is true and at the back otherwise, so that
\* calls with atFront = false, false, true give [third, first, second].
C13_CanvasFrontBack ==
  decorations.canvasDecorations = FrontWhenAtFront(canvasLog, Len(canvasLog))

\* position of a canvas decoration in the list
IndexOf(list, x) == CHOOSE i \in 1..Len(list) : list[i] = x

\* C14: after any sequence of addCanvasDecoration calls, an item added with
\* atFront = true precedes, in the list, every item added later with
\* atFront = false.
C14_FrontPrecedesLaterDefault ==
  \A i, j \in 1..Len(canvasLog) :
     (i < j /\ canvasLog[i].atFront /\ ~canvasLog[j].atFront) =>
        IndexOf(decorations.canvasDecorations, canvasLog[i].decoration)
          < IndexOf(decorations.canvasDecorations, canvasLog[j].decoration)

\* the bucket the claim gives to a graphic type
BucketOf(type) ==
  CASE type = "Scene" -> "normal"
    [] type = "WorldDecoration" -> "world"
    [] type = "WorldOverlay" -> "worldOverlay"
    [] type = "ViewOverlay" -> "viewOverlay"
    [] OTHER -> "viewBackground"

\* x is the graphic numbered id, or the graphic owner made for it
IsGraphic(x, id) ==
  \/ x.kind = "graphic" /\ x.id = id
  \/ x.kind = "owner" /\ x.graphic = id

\* C15: addDecoration(type, graphic) appends the graphic to the one list its
\* type selects (Scene: normal, WorldDecoration: world, WorldOverlay:
\* worldOverlay, ViewOverlay: viewOverlay) and leaves the rest of the bundle
\* alone; for ViewBackground it replaces the view background and no list grows.
C15_AddDecorationRoutes ==
  [][\A type \in GraphicTypes, fromBuilder \in BOOLEAN :
        AddDecoration(type, fromBuilder) =>
          /\ \A b \in DOMAIN decorations \ {BucketOf(type)} : decorations'[b] = decorations[b]
          /\ IF type = "ViewBackground"
             THEN IsGraphic(decorations'.viewBackground, nextId)
             ELSE /\ Len(decorations'[BucketOf(type)]) = Len(decorations[BucketOf(type)]) + 1
                  /\ SubSeq(decorations'[BucketOf(type)], 1, Len(decorations[BucketOf(type)]))
                       = decorations[BucketOf(type)]
                  /\ IsGraphic(decorations'[BucketOf(type)][Len(decorations'[BucketOf(type)])],
                               nextId)]_vars

\* a decorate has added two view backgrounds and nothing else: the bundle
\* holds the second one and no list has grown
C15_Witness ==
  /\ stack # <<>> /\ nCalls = 2
  /\ \A b \in ListBuckets : decorations[b] = <<>>
  /\ IsGraphic(decorations.viewBackground, 2)

\* C16: withGraphicType restores the graphic type that was current before the
\* call on every way out: when func returns and when func throws, graphicType
\* is afterwards what it was before the call.
C16_GraphicTypeRestored ==
  [][Len(scopes') < Len(scopes) => sceneContext'.graphicType = Head(scopes).prevType]_vars

\* the graphic lists of the Scene
SceneLists == {"foreground", "background", "overlay"}

\* the list the claim gives to a tile graphic type
SceneListOf(type) ==
  CASE type = "BackgroundMap" -> "background"
    [] type = "Overlay" -> "overlay"
    [] OTHER -> "foreground"

IsPrefix(s1, s2) == Len(s1) <= Len(s2) /\ SubSeq(s2, 1, Len(s1)) = s1

\* C17: outputGraphic appends the graphic to the one scene list the current
\* graphic type selects (BackgroundMap: background, Overlay: overlay, any
\* other: foreground), and no operation of the SceneContext removes or
\* reorders what a scene list holds: each list only grows at its end.
C17_SceneListsAppendOnly ==
  [][/\ \A l \in SceneLists : IsPrefix(sceneContext[l], sceneContext'[l])
     /\ OutputGraphic =>
          /\ sceneContext'[SceneListOf(sceneContext.graphicType)]
               = Append(sceneContext[SceneListOf(sceneContext.graphicType)],
                        SceneGraphics(sceneContext) + 1)
          /\ \A l \in SceneLists \ {SceneListOf(sceneContext.graphicType)} :
               sceneContext'[l] = sceneContext[l]]_vars

\* graphics were output under each of the three graphic types: every scene
\* list holds one
C17_Witness ==
  \A l \in SceneLists : Len(sceneContext[l]) = 1

\* C18: insertMissingTile adds the tile to missingTiles if and only if its
\* load status at the call is NotLoaded, Queued or Loading and leaves the set
\* as it is for every other status; a tile inserted again is not added again.
C18_MissingTileByStatus ==
  [][\A tile \in Tiles, loadStatus \in TileLoadStatuses :
        InsertMissingTile(tile, loadStatus) =>
          /\ (tile \in sceneContext'.missingTiles) <=>
               (tile \in sceneContext.missingTiles
                  \/ loadStatus \in {"NotLoaded", "Queued", "Loading"})
          /\ sceneContext'.missingTiles \ {tile} = sceneContext.missingTiles \ {tile}
          /\ (tile \in sceneContext.missingTiles =>
                 Cardinality(sceneContext'.missingTiles) = Cardinality(sceneContext.missingTiles))
          /\ (loadStatus \in {"Ready", "NotFound", "Abandoned"} =>
                 sceneContext'.missingTiles = sceneContext.missingTiles)]_vars

\* both tiles were inserted as missing
C18_Witness == sceneContext.missingTiles = Tiles

\* C19: hasMissingTiles is true exactly when missingTiles is not empty or
\* markChildrenLoading has been called on the context; it is false on a new
\* context.
C19_HasMissingTiles ==
  /\ hasMissingTiles(sceneContext) <=> (sceneContext.missingTiles # {} \/ markCalled)
  /\ (sceneContext = NewSceneContext => ~hasMissingTiles(sceneContext))

\* markChildrenLoading was called and no tile is missing
C19_Witness ==
  /\ markCalled /\ sceneContext.missingTiles = {}
  /\ hasMissingTiles(sceneContext)

\* C20: requestMissingTiles hands the viewport and the missingTiles set to
\* TileAdmin.requestTiles and leaves the SceneContext as it is: missingTiles
\* and the children-loading flag are not cleared and hasMissingTiles keeps its
\* value.
C20_RequestKeepsMissingTiles ==
  [][RequestMissingTiles =>
        /\ requested' = <<[viewport |-> "viewport", tiles |-> sceneContext.missingTiles]>>
        /\ sceneContext' = sceneContext
        /\ hasMissingTiles(sceneContext') = hasMissingTiles(sceneContext)]_vars

\* two missing tiles were requested and are still in the set, the
\* children-loading flag is still raised
C20_Witness ==
  /\ requested # <<>> /\ requested[1].tiles = Tiles
  /\ sceneContext.missingTiles = Tiles
  /\ sceneContext.missingChildTiles

\* what a call of addPlanarClassifier for id does when the scene has a
\* classifier for id, and what it asks of the target when it has none
MemoizedCall(id) ==
  LET pcs == sceneContext.planarClassifiers
  IN /\ id \in DOMAIN pcs =>
          /\ targetLog'.ret = pcs[id]
          /\ targetLog'.get = targetLog.get
          /\ targetLog'.create = targetLog.create
          /\ targetLog'.collect = targetLog.collect
          /\ sceneContext' = sceneContext
     /\ id \notin DOMAIN pcs =>
          /\ targetLog'.get[id] = targetLog.get[id] + 1
          /\ id \in target.classifiers =>
               (targetLog'.ret = TargetObject(id) /\ targetLog'.create = targetLog.create)
          /\ id \notin target.classifiers =>
               targetLog'.create[id] = targetLog.create[id] + 1

\* C21 (as claimed): addPlanarClassifier is memoized by model id within the
\* scene, uses the target's classifier when it holds one and creates one only
\* otherwise; so per scene and model id there is at most one create and, once
\* the classifier was asked for, exactly one collectGraphics.
C21_OneCreateOneCollect ==
  [][\A id \in ModelIds, canCreate \in BOOLEAN :
        AddPlanarClassifier(id, canCreate) =>
          /\ MemoizedCall(id)
          /\ targetLog'.create[id] <= 1
          /\ targetLog'.collect[id] = 1]_vars

\* C21 (amended): as above, but at most one create per scene and model id
\* that returns a classifier (a create that returns none may be repeated by a
\* later call), and collectGraphics exactly once for a model id whose
\* classifier is recorded in the scene, not at all before.
C21_OneClassifierOneCollect ==
  [][\A id \in ModelIds, canCreate \in BOOLEAN :
        AddPlanarClassifier(id, canCreate) =>
          /\ MemoizedCall(id)
          /\ (targetLog'.create[id] > targetLog.create[id] /\ targetLog'.ret # NoObject) =>
               targetLog'.ret = CreatedObject(id, targetLog'.create[id])
          /\ \A m \in ModelIds :
               /\ targetLog'.collect[m]
                    = IF m \in DOMAIN sceneContext'.planarClassifiers THEN 1 ELSE 0
               /\ (m \in DOMAIN sceneContext.planarClassifiers =>
                      /\ targetLog'.create[m] = targetLog.create[m]
                      /\ sceneContext'.planarClassifiers[m] = sceneContext.planarClassifiers[m])]_vars

\* the classifier of m1 was created by the second create, returned by a third
\* call without another create, and its graphics were collected once
C21_Witness ==
  /\ targetLog.calls = 3
  /\ targetLog.create["m1"] = 2 /\ targetLog.get["m1"] = 2
  /\ targetLog.collect["m1"] = 1
  /\ targetLog.ret = CreatedObject("m1", 2)

\* C22: when the target neither holds nor can create a classifier for the
\* model id, addPlanarClassifier returns undefined, records nothing in
\* planarClassifiers and collects no graphics, and a later call for the same
\* id asks the target again; every value in planarClassifiers is a classifier.
C22_NoClassifierNothingRecorded ==
  [][\A id \in ModelIds :
        AddPlanarClassifier(id, FALSE) =>
          /\ (id \notin DOMAIN sceneContext.planarClassifiers /\ id \notin target.classifiers) =>
               /\ targetLog'.ret = NoObject
               /\ sceneContext' = sceneContext
               /\ targetLog'.collect = targetLog.collect
               /\ targetLog'.get[id] = targetLog.get[id] + 1
               /\ targetLog'.create[id] = targetLog.create[id] + 1
          /\ \A m \in DOMAIN sceneContext'.planarClassifiers :
               sceneContext'.planarClassifiers[m] # NoObject]_vars

\* the target was asked twice for a classifier of m1 and could not give one
C22_Witness ==
  /\ targetLog.get["m1"] = 2 /\ targetLog.create["m1"] = 2
  /\ targetLog.ret = NoObject
  /\ targetLog.collect["m1"] = 0
  /\ "m1" \notin DOMAIN sceneContext.planarClassifiers

\* C23: addBackgroundDrapedModel returns undefined and changes nothing when
\* the tile tree is not available; otherwise it returns the drape of the
\* scene's textureDrapes map for the tree's model id if there is one, else the
\* target's drape, else a newly created one, and records a drape it obtained
\* in the map, so that a repeated call returns the same drape without another
\* create.
C23_DrapeMemoized ==
  [][\A drapedTree \in DrapedTrees, canCreate \in BOOLEAN :
        AddBackgroundDrapedModel(drapedTree, canCreate) =>
          LET id == drapedTree.modelId
              drapes == sceneContext.textureDrapes
              asked == /\ targetLog'.getDrape = targetLog.getDrape
                       /\ targetLog'.createDrape = targetLog.createDrape
          IN /\ ~drapedTree.available =>
                  (targetLog'.ret = NoObject /\ sceneContext' = sceneContext /\ asked)
             /\ (drapedTree.available /\ id \in DOMAIN drapes) =>
                  (targetLog'.ret = drapes[id] /\ sceneContext' = sceneContext /\ asked)
             /\ (drapedTree.available /\ id \notin DOMAIN drapes /\ id \in target.drapes) =>
                  /\ targetLog'.ret = TargetObject(id)
                  /\ targetLog'.createDrape = targetLog.createDrape
             /\ (drapedTree.available /\ id \notin DOMAIN drapes /\ id \notin target.drapes) =>
                  /\ targetLog'.createDrape[id] = targetLog.createDrape[id] + 1
                  /\ targetLog'.ret = IF canCreate
                                      THEN CreatedObject(id, targetLog'.createDrape[id])
                                      ELSE NoObject
             /\ (drapedTree.available /\ targetLog'.ret # NoObject) =>
                  /\ id \in DOMAIN sceneContext'.textureDrapes
                  /\ sceneContext'.textureDrapes[id] = targetLog'.ret
             /\ \A m \in DOMAIN sceneContext'.textureDrapes :
                  sceneContext'.textureDrapes[m] # NoObject
             /\ \A m \in DOMAIN drapes :
                  /\ m \in DOMAIN sceneContext'.textureDrapes
                  /\ sceneContext'.textureDrapes[m] = drapes[m]]_vars

\* a drape was created for m1 and a second call returned it: the target was
\* asked once
C23_Witness ==
  /\ targetLog.calls = 2
  /\ targetLog.getDrape["m1"] = 1 /\ targetLog.createDrape["m1"] = 1
  /\ targetLog.ret = CreatedObject("m1", 1)
  /\ getTextureDrapeForModel(sceneContext, "m1") = targetLog.ret

\* C24: addGraphic appends the graphics in call order; changeDynamics passes
\* to viewport.changeDynamics the list accumulated so far (undefined when
\* nothing was added) and leaves the list as it is, so that a second call
\* with nothing added in between passes the same list.
C24_DynamicsPassedUnchanged ==
  [][/\ AddGraphic =>
          /\ dynamics'.defined
          /\ dynamics'.list = Append(dynamics.list, RawGraphic(Len(dynamics.list) + 1))
          /\ passed' = passed
     /\ ChangeDynamics =>
          /\ passed' = Append(passed, dynamics)
          /\ dynamics' = dynamics
          /\ (dynamics.list = <<>> => ~passed'[Len(passed')].defined)
          /\ (passed # <<>> /\ passed[Len(passed)] = dynamics) =>
               passed'[Len(passed')] = passed[Len(passed)]]_vars

\* two graphics were added and changeDynamics was called twice: both calls
\* passed the list of the two
C24_Witness ==
  /\ Len(passed) = 2 /\ passed[1] = passed[2]
  /\ passed[2].list = <<RawGraphic(1), RawGraphic(2)>>
  /\ dynamics = passed[2]

\* the call of drawStandardGrid made in this decorate
GridCalled == grid # <<>>

\* the spacing of the reference lines of the call, per axis
RefSpacingOf(g) ==
  IF g.gridsPerRef = 0 THEN g.spacing
  ELSE [x |-> g.spacing.x * g.gridsPerRef, y |-> g.spacing.y * g.gridsPerRef]

\* a length covers fewer than px pixels
FewerPixels(length, meterPerPixel, px) == length < px * meterPerPixel

\* C25: when the reference spacing (spacing x gridsPerRef, or spacing when
\* gridsPerRef is 0) covers fewer than 20 pixels on either axis,
\* drawStandardGrid emits no reference line; when it does so on both axes
\* it emits no sub-grid line either.
C25_DenseGridNoLines ==
  GridCalled =>
    LET g == grid[1].in
        out == grid[1].out
        denseX == FewerPixels(RefSpacingOf(g).x, g.meterPerPixel, 20)
        denseY == FewerPixels(RefSpacingOf(g).y, g.meterPerPixel, 20)
    IN /\ (denseX \/ denseY) => (out.refLinesX = 0 /\ out.refLinesY = 0)
       /\ (denseX /\ denseY) => (out.gridLinesX = 0 /\ out.gridLinesY = 0)

\* a grid of 10 on both axes with a pixel size of 1 was drawn: the plane
\* shape went into the bundle without a line
C25_Witness ==
  /\ GridCalled
  /\ grid[1].in.spacing = [x |-> 10, y |-> 10] /\ grid[1].in.gridsPerRef = 1
  /\ grid[1].in.meterPerPixel = 1
  /\ grid[1].out.builder
  /\ grid[1].out.refLinesX = 0 /\ grid[1].out.gridLinesX = 0
  /\ Len(decorations.world) = 1

\* a length covers exactly px pixels
ExactlyPixels(length, meterPerPixel, px) == length = px * meterPerPixel

\* C26 as stated: when the reference spacing covers exactly 20 pixels on an
\* axis, drawStandardGrid emits no reference line.
C26_BoundaryNotDrawn ==
  GridCalled =>
    LET g == grid[1].in
        out == grid[1].out
    IN (ExactlyPixels(RefSpacingOf(g).x, g.meterPerPixel, 20)
          \/ ExactlyPixels(RefSpacingOf(g).y, g.meterPerPixel, 20))
         => (out.refLinesX = 0 /\ out.refLinesY = 0)

\* C26, amended: when the reference spacing covers exactly 20 pixels on an
\* axis and not fewer on the other, a drawStandardGrid that draws the plane
\* draws reference lines: exactly 20 pixels is not below the minimum, and
\* each axis with fewer than 100 repetitions gets its lines.
C26_BoundaryDrawn ==
  GridCalled =>
    LET g == grid[1].in
        out == grid[1].out
        exactX == ExactlyPixels(RefSpacingOf(g).x, g.meterPerPixel, 20)
        exactY == ExactlyPixels(RefSpacingOf(g).y, g.meterPerPixel, 20)
        denseX == FewerPixels(RefSpacingOf(g).x, g.meterPerPixel, 20)
        denseY == FewerPixels(RefSpacingOf(g).y, g.meterPerPixel, 20)
    IN (out.builder /\ (exactX \/ exactY) /\ ~denseX /\ ~denseY)
         => /\ out.drawRefLines
            /\ g.nRef.x < 100 => out.refLinesX > 0
            /\ g.nRef.y < 100 => out.refLinesY > 0

\* a grid of 20 on x and 40 on y with a pixel size of 1 and two repetitions
\* was drawn: three reference lines in each direction
C26_Witness ==
  /\ GridCalled
  /\ grid[1].in.spacing = [x |-> 20, y |-> 40] /\ grid[1].in.gridsPerRef = 1
  /\ grid[1].in.meterPerPixel = 1 /\ grid[1].in.nRef = [x |-> 2, y |-> 2]
  /\ grid[1].out.refLinesX = 3 /\ grid[1].out.refLinesY = 3
  /\ Len(decorations.world) = 1

\* the length of the cache entry of a decorator
EntryLen(c, d) == IF d \in DOMAIN c THEN Len(c[d]) ELSE 0

\* C27: a call of drawStandardGrid adds at most one decoration, always to
\* the world bucket (type WorldDecoration), and adds it through
\* addDecorationFromBuilder: while a recorded decorator's decorate runs, its
\* cache entry gets exactly one graphic item for the grid, of type
\* WorldDecoration and holding the owner put into the bundle.
C27_GridOneWorldDecoration ==
  [][(grid = <<>> /\ grid' # <<>>) =>
       LET out == grid'[1].out
           cur == curCacheableDecorator
           n == Len(decorations.world)
       IN /\ [decorations' EXCEPT !.world = <<>>] = [decorations EXCEPT !.world = <<>>]
          /\ IsPrefix(decorations.world, decorations'.world)
          /\ Len(decorations'.world) = IF out.builder THEN n + 1 ELSE n
          /\ (out.builder /\ cur # Undefined) =>
               /\ EntryLen(cache', cur) = EntryLen(cache, cur) + 1
               /\ LET item == cache'[cur][Len(cache'[cur])]
                  IN /\ item.type = "graphic"
                     /\ item.graphicType = "WorldDecoration"
                     /\ item.graphicOwner = decorations'.world[n + 1]
               /\ \A d \in DOMAIN cache : d # cur => cache'[d] = cache[d]
          /\ (~out.builder \/ cur = Undefined) => cache' = cache]_vars

\* the decorate of A drew a grid: one owner in the world bucket, one graphic
\* item in the cache entry of A
C27_Witness ==
  /\ GridCalled /\ grid[1].out.builder
  /\ stack = <<"A">>
  /\ Len(decorations.world) = 1
  /\ EntryLen(cache, "A") = 1
  /\ cache["A"][1].graphicOwner = decorations.world[1]

\* C29: with the camera off, drawStandardGrid adds no decoration when the
\* absolute dot product of the eye direction and the grid normal is below
\* 0.005; with the camera on this test suppresses nothing: the grid is drawn
\* whenever the eye direction, the plane and the clipped shape exist.
C29_EdgeOnOrthographicOnly ==
  GridCalled =>
    LET g == grid[1].in
        out == grid[1].out
        small == -5 < g.eyeDot /\ g.eyeDot < 5
    IN /\ (~g.isCameraOn /\ small) =>
            (~out.builder /\ decorations = EmptyDecorations /\ cache = <<>>)
       /\ (g.isCameraOn /\ g.normOk /\ g.planeOk /\ g.clip \in {GoodClip, [GoodClip EXCEPT !.finalPoints = 4]}) =>
            (out.builder /\ Len(decorations.world) = 1)

\* an orthographic view looked at the grid plane edge-on (dot product 0.004),
\* everything else being in order: nothing was added
C29_Witness ==
  /\ GridCalled
  /\ ~grid[1].in.isCameraOn /\ grid[1].in.eyeDot = 4
  /\ grid[1].in.normOk /\ grid[1].in.planeOk /\ grid[1].in.clip = GoodClip
  /\ ~grid[1].out.builder
  /\ decorations = EmptyDecorations

\* the clip gave nothing to draw
Degenerate(clip) ==
  \/ ~clip.geomDefined
  \/ clip.geomLength # 1
  \/ ~clip.isLoop
  \/ clip.children # 1
  \/ ~clip.isLineString
  \/ clip.finalPoints < 4

\* C30: when the clip of the grid plane against the frustum is degenerate
\* (no result or not exactly one loop, a loop without exactly one child, a
\* child that is no line string, fewer than 4 points after the polygon
\* clip), drawStandardGrid returns without a builder and without a
\* decoration: bundle and cache are as before, and decorate goes on.
C30_DegenerateClipNothingDrawn ==
  [][(grid = <<>> /\ grid' # <<>> /\ Degenerate(grid'[1].in.clip)) =>
       /\ ~grid'[1].out.builder
       /\ decorations' = decorations
       /\ cache' = cache
       /\ nextObj' = nextObj
       /\ stack' = stack /\ partial' = partial]_vars

\* a view from above whose clip left a triangle: nothing was added and
\* decorate is still running
C30_Witness ==
  /\ GridCalled
  /\ grid[1].in.normOk /\ grid[1].in.planeOk /\ grid[1].in.eyeDot = 1000
  /\ grid[1].in.clip = [GoodClip EXCEPT !.finalPoints = 3]
  /\ ~grid[1].out.builder
  /\ decorations = EmptyDecorations /\ cache = <<>>
  /\ stack # <<>>

\* C28: after a maintainer was constructed on an element and the scroll
\* positions of its subtree were changed at will, dispose leaves every
\* element of the subtree with the scrollTop it had at construction, those
\* whose scrollTop was 0 at construction included.
C28_ScrollRoundTrip ==
  [][Dispose =>
       \A e \in DOMAIN atConstruction.map : scrollTop'[e] = atConstruction.map[e]]_vars

\* C31: drawStandardGrid emits sub-grid lines only if reference lines are
\* drawn on both axes (the reference spacing covers at least 20 pixels on
\* both, and each axis has fewer than 100 repetitions or is unambiguous in a
\* perspective view), gridsPerRef is greater than 1 and the sub-grid spacing
\* covers at least 20 pixels on both axes; with gridsPerRef 0 or 1, or a
\* sub-grid spacing of fewer than 20 pixels on an axis, it emits none.
C31_SubGridConditions ==
  GridCalled =>
    LET g == grid[1].in
        out == grid[1].out
        some == out.gridLinesX > 0 \/ out.gridLinesY > 0
        refX == g.nRef.x < 100 \/ (g.isCameraOn /\ g.unambiguous.x)
        refY == g.nRef.y < 100 \/ (g.isCameraOn /\ g.unambiguous.y)
        subDense == FewerPixels(g.spacing.x, g.meterPerPixel, 20)
                      \/ FewerPixels(g.spacing.y, g.meterPerPixel, 20)
        refDense == FewerPixels(RefSpacingOf(g).x, g.meterPerPixel, 20)
                      \/ FewerPixels(RefSpacingOf(g).y, g.meterPerPixel, 20)
    IN /\ some => (~refDense /\ refX /\ refY /\ g.gridsPerRef > 1 /\ ~subDense)
       /\ some => (out.drawRefLines /\ out.drawRefX /\ out.drawRefY)
       /\ (g.gridsPerRef \in {0, 1} \/ subDense) => ~some

\* a grid of 20 with reference lines every second line, two repetitions and a
\* pixel size of 1 was drawn: two sub-grid lines in each direction
C31_Witness ==
  /\ GridCalled
  /\ grid[1].in.spacing = [x |-> 20, y |-> 20] /\ grid[1].in.gridsPerRef = 2
  /\ grid[1].in.meterPerPixel = 1 /\ grid[1].in.nRef = [x |-> 2, y |-> 2]
  /\ grid[1].out.gridLinesX = 2 /\ grid[1].out.gridLinesY = 2
  /\ Len(decorations.world) = 1

\* what C32 says of one reference-line loop: n repetitions, lines emitted,
\* fading begun, lines emitted after it began, sub-grid limit
BoundedRefLoop(n, drawn, lines, doFade, fade, nGrid) ==
  /\ lines <= 110
  /\ fade <= 8
  /\ nGrid <= n
  /\ doFade => (nGrid <= 101 /\ lines = nGrid + 1 + fade)
  /\ (drawn /\ ~doFade) => (lines = n + 1 /\ nGrid = n /\ fade = 0)
  /\ ~drawn => lines = 0

\* C32: each reference-line loop of drawStandardGrid ends after at most 110
\* lines whatever the number of repetitions: fading begins no later than
\* the line with index 101, at most 8 lines are emitted after it began, and
\* the index at which it began is the sub-grid limit (nGridRepetitions) of
\* the axis, which never exceeds nRefRepetitions.
C32_RefLoopBounded ==
  (GridCalled /\ grid[1].out.drawRefLines) =>
    LET g == grid[1].in
        out == grid[1].out
    IN /\ BoundedRefLoop(g.nRef.x, out.drawRefX, out.refLinesX, out.doFadeX, out.xFade,
                         out.nGridRepetitionsX)
       /\ BoundedRefLoop(g.nRef.y, out.drawRefY, out.refLinesY, out.doFadeY, out.yFade,
                         out.nGridRepetitionsY)

\* 120 repetitions in a perspective view whose lines stay apart: fading
\* began at index 101 and the loop ended after 110 lines
C32_Witness ==
  /\ GridCalled
  /\ grid[1].in.nRef = [x |-> 120, y |-> 120] /\ grid[1].in.isCameraOn
  /\ grid[1].out.refLinesX = 110 /\ grid[1].out.xFade = 8
  /\ grid[1].out.nGridRepetitionsX = 101

\* the number of reference intervals below the index at which an axis began
\* to fade, all n of them when it did not
Unthinned(n, doFade, nGrid) == IF doFade THEN nGrid ELSE n

Min2(a, b) == IF a < b THEN a ELSE b

\* C33 as stated: the sub-grid lines of each direction are limited by the
\* thinning index of both reference loops: no direction has lines in more
\* intervals than the smaller of the two indices.
C33_SubGridLimitedByBothAxes ==
  (GridCalled /\ grid[1].out.drawGridLines) =>
    LET g == grid[1].in
        out == grid[1].out
        limit == Min2(Unthinned(g.nRef.x, out.doFadeX, out.nGridRepetitionsX),
                      Unthinned(g.nRef.y, out.doFadeY, out.nGridRepetitionsY))
    IN /\ out.gridLinesX <= limit * (g.gridsPerRef - 1)
       /\ out.gridLinesY <= limit * (g.gridsPerRef - 1)

\* C33, amended: the sub-grid lines of each direction are limited by the
\* thinning index of the reference loop of their own axis alone: gridsPerRef
\* - 1 lines in each of the intervals below that index (all intervals when
\* the axis did not fade, none when fewer than two are left), whatever the
\* other axis did.
C33_SubGridLimitedByOwnAxis ==
  (GridCalled /\ grid[1].out.drawGridLines) =>
    LET g == grid[1].in
        out == grid[1].out
        limitX == Unthinned(g.nRef.x, out.doFadeX, out.nGridRepetitionsX)
        limitY == Unthinned(g.nRef.y, out.doFadeY, out.nGridRepetitionsY)
    IN /\ out.gridLinesX = IF limitX > 1 THEN limitX * (g.gridsPerRef - 1) ELSE 0
       /\ out.gridLinesY = IF limitY > 1 THEN limitY * (g.gridsPerRef - 1) ELSE 0

\* 99 repetitions on an ambiguous X axis, 100 on a Y axis that began to fade at
\* index 3: 99 sub-grid lines in X direction, 3 in Y direction
C33_Witness ==
  /\ GridCalled /\ grid[1].out.drawGridLines
  /\ grid[1].in.nRef = [x |-> 99, y |-> 100] /\ grid[1].in.gridsPerRef = 2
  /\ ~grid[1].out.doFadeX
  /\ grid[1].out.doFadeY /\ grid[1].out.nGridRepetitionsY = 3
  /\ grid[1].out.gridLinesX = 99 /\ grid[1].out.gridLinesY = 3

\* what C38 says of one axis of an orthographic view: n repetitions
OrthographicAxis(n, lines, doFade, fade, out) ==
  /\ ~doFade /\ fade = 0
  /\ n < 100 => lines = n + 1
  /\ n >= 100 => (lines = 0 /\ out.gridLinesX = 0 /\ out.gridLinesY = 0)

\* C38: with the camera off no reference line fades: an axis with fewer than
\* 100 repetitions gets all its nRefRepetitions + 1 reference lines, none of
\* them faded, and an axis with 100 or more repetitions gets none, and then
\* no sub-grid line is drawn in either direction.
C38_OrthographicNeverFades ==
  (GridCalled /\ ~grid[1].in.isCameraOn /\ grid[1].out.drawRefLines) =>
    LET g == grid[1].in
        out == grid[1].out
    IN /\ OrthographicAxis(g.nRef.x, out.refLinesX, out.doFadeX, out.xFade, out)
       /\ OrthographicAxis(g.nRef.y, out.refLinesY, out.doFadeY, out.yFade, out)

\* an orthographic view of 99 by 100 repetitions, the axes unambiguous: 100
\* reference lines on X, none on Y, no sub-grid line
C38_Witness ==
  /\ GridCalled /\ ~grid[1].in.isCameraOn /\ grid[1].out.drawRefLines
  /\ grid[1].in.nRef = [x |-> 99, y |-> 100] /\ grid[1].in.gridsPerRef = 2
  /\ grid[1].in.unambiguous = [x |-> TRUE, y |-> TRUE]
  /\ grid[1].out.refLinesX = 100 /\ grid[1].out.refLinesY = 0
  /\ grid[1].out.gridLinesX = 0 /\ grid[1].out.gridLinesY = 0

\* a transparency between lo and hi
Within(t, lo, hi) == lo * t.den <= t.num /\ t.num <= hi * t.den

\* C39: every transparency drawStandardGrid gives to a color is within
\* 0..255: the plane has 225; the reference lines have 150 and, fading, 150
\* plus 1 to 8 steps of (255 - 150) / 10, each step above the one before and
\* none above 234; the sub-grid lines have 220 and, fading, 220 +
\* k * (255 - 220) / (gridsPerRef + 2) with 0 < k < gridsPerRef, below 255.
C39_TransparencyBands ==
  GridCalled =>
    LET g == grid[1].in
        out == grid[1].out
        all == out.planeTransparency \cup out.refTransparency \cup out.gridTransparency
    IN /\ \A t \in all : Within(t, 0, 255)
       /\ out.builder => out.planeTransparency = {[num |-> 225, den |-> 1]}
       /\ out.drawRefLines =>
            /\ [num |-> 150, den |-> 1] \in out.refTransparency
            /\ \A t \in out.refTransparency \ {[num |-> 150, den |-> 1]} :
                 /\ \E k \in 1..8 : t = [num |-> 1500 + 105 * k, den |-> 10]
                 /\ Within(t, 150, 234)
            /\ \A k \in 1..8 :
                 (k <= out.xFade /\ out.drawRefX) \/ (k <= out.yFade /\ out.drawRefY)
                   <=> [num |-> 1500 + 105 * k, den |-> 10] \in out.refTransparency
       /\ \A t \in out.gridTransparency \ {[num |-> 220, den |-> 1]} :
            /\ \E k \in 1..(g.gridsPerRef - 1) :
                 t = [num |-> 220 * (g.gridsPerRef + 2) + 35 * k, den |-> g.gridsPerRef + 2]
            /\ t.num < 255 * t.den
       /\ (out.gridLinesX > 0 \/ out.gridLinesY > 0) =>
            [num |-> 220, den |-> 1] \in out.gridTransparency

\* a perspective view whose reference lines faded through all 8 steps, the
\* last at 234, and whose sub-grid faded in its last interval
C39_Witness ==
  /\ GridCalled
  /\ grid[1].out.xFade = 8
  /\ [num |-> 2340, den |-> 10] \in grid[1].out.refTransparency
  /\ grid[1].in.gridsPerRef = 2
  /\ [num |-> 915, den |-> 4] \in grid[1].out.gridTransparency

\* the graphic owners in a Decorations bundle
OwnersIn(decs) == {g \in BundleGraphics(decs) : g.kind = "owner"}

\* C34: while a decorator is recorded, addDecoration wraps the graphic in a
\* graphic owner, and the object it puts into the bundle is the owner it
\* stores in the cache entry, never the graphic itself; and a graphic owner
\* released from the cache (decorator dropped, cache invalidated) is in no
\* bundle built for a later frame.
C34_BundleHoldsCachedOwner ==
  [][/\ ((\E type \in GraphicTypes, fromBuilder \in BOOLEAN : AddDecoration(type, fromBuilder))
           /\ curCacheableDecorator # Undefined) =>
          LET entry == cache'[curCacheableDecorator]
              item == entry[Len(entry)]
          IN /\ item.type = "graphic"
             /\ item.graphicOwner = createGraphicOwner(RawGraphic(nextId), nextObj)
             /\ item.graphicOwner \in BundleGraphics(decorations')
             /\ item.graphicOwner \notin BundleGraphics(decorations)
             /\ RawGraphic(nextId) \notin BundleGraphics(decorations')
     /\ decorationsValid' =>
          \A o \in OwnersIn(decorations') : disposeCount'.owner[o.id] = 0]_vars

\* the owner A recorded was released when A was dropped, and the bundle of
\* the frame drawn afterwards holds a decoration without holding that owner
C34_Witness ==
  /\ Idle /\ decorationsValid
  /\ "A" \notin DOMAIN cache
  /\ disposeCount.owner[1] = 1
  /\ decorations # EmptyDecorations
  /\ \A o \in OwnersIn(decorations) : o.id # 1

\* C35 as stated: what a recorded decorator puts into the bundle is in its
\* cache entry, a sky box set with setSkyBox and a background set with
\* setViewBackground included: replaying the entry gives the skyBox and
\* viewBackground slots decorate has produced.
C35_ReplayEqualsSlots ==
  curCacheableDecorator # Undefined =>
     /\ ReplayOfRecording.skyBox = decorations.skyBox
     /\ ReplayOfRecording.viewBackground = decorations.viewBackground

\* C35, amended: what a recorded decorator puts into the bundle with the
\* add-calls is in its cache entry, so that the replay gives the same
\* lists; a sky box set with setSkyBox and a background set directly with
\* setViewBackground are not recorded: the replay leaves the sky box as it
\* was before decorate, and gives the background of the frame of decorate
\* unless decorate set it directly.
C35_ReplayEqualsAddCalls ==
  curCacheableDecorator # Undefined =>
     /\ SameLists(ReplayOfRecording, decorations)
     /\ ReplayOfRecording.skyBox = pre.skyBox
     /\ \/ decorations.skyBox = pre.skyBox
        \/ decorations.skyBox.kind = "graphic"
     /\ \/ ReplayOfRecording.viewBackground = decorations.viewBackground
        \/ decorations.viewBackground.kind = "graphic"

\* A, recorded, has added an html decoration and set a sky box: the replay
\* of its entry gives the decoration and no sky box
C35_Witness ==
  /\ curCacheableDecorator = "A" /\ stack = <<"A">>
  /\ "A" \in DOMAIN cache
  /\ decorations.html # <<>>
  /\ decorations.skyBox.kind = "graphic"
  /\ ReplayOfRecording.skyBox = NoGraphic
  /\ ReplayOfRecording.html = decorations.html

\* C36: a call of addFromDecorator that replays a cache entry leaves the
\* cache as it is: no entry gets an item, no CachedDecoration and no graphic
\* owner is created, so that every entry keeps the length and the objects it
\* was recorded with through any number of replayed frames.
C36_ReplayKeepsCache ==
  [][\A d \in Decorators :
        (CallOf(d) /\ useCachedDecorations[d] /\ d \in DOMAIN cache) =>
           /\ last' = Op("replay", d)
           /\ cache' = cache
           /\ nextObj' = nextObj
           /\ everCached' = everCached
           /\ disposeCount' = disposeCount]_vars

\* A's entry of two items has just been replayed: the two objects made when
\* it was recorded are still the only ones
C36_Witness ==
  /\ last = Op("replay", "A")
  /\ "A" \in DOMAIN cache /\ Len(cache["A"]) = 2
  /\ IdsOf(cache, "A") = {1, 2}
  /\ nextObj = 3
  /\ decorations # EmptyDecorations

\* C37: an item gets into the cache entry of a decorator D only by an
\* add-call made while decorate of D runs under addFromDecorator(D), D being
\* a caching decorator and the one set as recorded: what a non-caching
\* decorator or another decorator adds, what a replay adds and what is added
\* on the context outside addFromDecorator gets into no entry.
C37_RecordedInOwnDecorate ==
  [][\A d \in DOMAIN cache' :
        cache'[d] # getCachedDecorations(cache, d) =>
           /\ useCachedDecorations[d]
           /\ stack = <<d>> /\ last = Op("decorate", d)
           /\ curCacheableDecorator = d
           /\ IsPrefix(getCachedDecorations(cache, d), cache'[d])
           /\ Len(cache'[d]) = EntryLen(cache, d) + 1
           /\ \A e \in (DOMAIN cache') \ {d} : cache'[e] = getCachedDecorations(cache, e)]_vars

\* A recorded one decoration, and a graphic was then added on the context
\* outside addFromDecorator: the entry of A has the one item
C37_Witness ==
  /\ last = Op("direct", "-")
  /\ DOMAIN cache = {"A"} /\ Len(cache["A"]) = 1
  /\ \E g \in BundleGraphics(decorations) : g.kind = "graphic"
  /\ \E g \in BundleGraphics(decorations) : g.kind = "owner"

====
